---------------------------- MODULE Spec2Model ----------------------------
(***************************************************************************)
(* Model of dashboard_yodeck.py: the client registry kept in the JSON      *)
(* document clientes_config.json, the save-client handler that rewrites    *)
(* it, and the aggregation pass procesar_datos that joins the registry     *)
(* onto the playback table.                                                *)
(*                                                                         *)
(* Conventions.  A Python string is a sequence of one-character strings.   *)
(* None and the empty string are both falsy and the code only tests their  *)
(* truth, so an empty form field is the empty sequence (0 for a number).   *)
(* A date string 'YYYY-MM-DD' is a record [tipo |-> "fecha", a, m, d]      *)
(* whose fields need not name a calendar day; a parsed date is the tuple   *)
(* <<a, m, d>>.  NaN, pandas' missing value, is a value no string equals.  *)
(***************************************************************************)
EXTENDS Integers, Sequences, FiniteSets, TLC

VARIABLES
    config_file,      \* content of CONFIG_FILE on disk
    hoy,              \* datetime.now().date()
    entrada,          \* State(...) values read by the last guardar_cliente call
    salida_guardar,   \* children of 'output-guardar-cliente'
    pc,               \* position of each concurrent guardar_cliente request
    peticion,         \* the form values each concurrent request was sent with
    leido,            \* the local variable config of each concurrent request
    escritor,         \* the request whose json.dump reached the file last
    csv_folder,       \* the CSV files glob finds: [csv |-> in CSV_FOLDER, raiz |-> in '.']
    df,               \* the playback table handed to procesar_datos
    rango_fechas,     \* the date range handed to procesar_datos, or None
    res,              \* what the last procesar_datos call returned
    fig_ingresos_mes, \* the series of 'graph-ingresos-mes' drawn by update_data
    nombres,          \* what the last obtener_nombres_reales call returned
    form_contrato,    \* the contract form: n_clicks, pricing inputs, Total, output
    pdf_contrato,     \* datos_contrato of the last PDF written by generar_contrato_pdf
    videos,           \* the folder 'videos': whether it exists and its file names
    testigos,         \* the paths of the files in TESTIGOS_FOLDER
    exportacion,      \* the last exportar_testigos_cliente call and what it returned
    stored_fechas,    \* data of the dcc.Store 'stored-fechas'
    stored_config,    \* data of the dcc.Store 'stored-config'
    pendientes,       \* the callbacks a changed 'stored-config' has triggered
    mensaje_filtro,   \* the range shown in 'output-filtro-fechas', <<>> for none
    op                \* the operation that ran last

vars_registro == <<entrada, salida_guardar>>

vars_carrera == <<pc, peticion, leido, escritor>>

vars_panel == <<csv_folder, df, rango_fechas, res, fig_ingresos_mes, nombres>>

vars_contrato == <<form_contrato, pdf_contrato>>

vars_testigos == <<videos, testigos, exportacion>>

vars_tablero == <<stored_fechas, stored_config, pendientes, mensaje_filtro>>

vars == <<config_file, hoy, vars_registro, vars_carrera, vars_panel, vars_contrato,
          vars_testigos, vars_tablero, op>>

---------------------------------------------------------------------------
(* Strings *)

S_cliente == <<"c", "l", "i", "e", "n", "t", "e">>

S_cliente1 == S_cliente \o <<"1">>

S_cliente2 == S_cliente \o <<"2">>

S_clienteABC == S_cliente \o <<"A", "B", "C">>

S_acme == <<"a", "c", "m", "e">>

S_nombre == <<"G", "M">>

S_contacto == <<"a", "@", "b">>

Digitos == {"0", "1", "2", "3", "4", "5", "6", "7", "8", "9"}

\* str.startswith
StartsWith(s, prefijo) ==
    /\ Len(s) >= Len(prefijo)
    /\ SubSeq(s, 1, Len(prefijo)) = prefijo

\* the pattern clienteN of the spec: re.fullmatch(r'cliente\d+', s)
EsClienteN(s) ==
    /\ Len(s) > Len(S_cliente)
    /\ SubSeq(s, 1, Len(S_cliente)) = S_cliente
    /\ \A i \in (Len(S_cliente) + 1)..Len(s) : s[i] \in Digitos

---------------------------------------------------------------------------
(* Dates: datetime.date, timedelta, strftime / strptime with '%Y-%m-%d' *)

EsBisiesto(a) == (a % 4 = 0 /\ a % 100 # 0) \/ a % 400 = 0

DiasEnMes(a, m) ==
    IF m = 2 THEN (IF EsBisiesto(a) THEN 29 ELSE 28)
    ELSE IF m \in {4, 6, 9, 11} THEN 30 ELSE 31

RECURSIVE DiasAntesDeMes(_, _)
DiasAntesDeMes(a, m) ==
    IF m = 1 THEN 0 ELSE DiasAntesDeMes(a, m - 1) + DiasEnMes(a, m - 1)

\* date.toordinal
Ordinal(f) ==
    LET a == f[1] - 1
    IN  a * 365 + (a \div 4) - (a \div 100) + (a \div 400)
          + DiasAntesDeMes(f[1], f[2]) + f[3]

RECURSIVE Normalizar(_, _, _)
Normalizar(a, m, d) ==
    IF d <= DiasEnMes(a, m) THEN <<a, m, d>>
    ELSE IF m = 12 THEN Normalizar(a + 1, 1, d - DiasEnMes(a, m))
    ELSE Normalizar(a, m + 1, d - DiasEnMes(a, m))

\* date + timedelta(days=n), n >= 0
SumarDias(f, n) == Normalizar(f[1], f[2], f[3] + n)

\* date.strftime('%Y-%m-%d')
Strftime(f) == [tipo |-> "fecha", a |-> f[1], m |-> f[2], d |-> f[3]]

\* datetime.strptime(x, '%Y-%m-%d').date(): [ok |-> FALSE] stands for the
\* ValueError (text that is no calendar day) or TypeError (not a string)
Strptime(x) ==
    IF /\ x.tipo = "fecha"
       /\ x.m \in 1..12
       /\ x.d \in 1..DiasEnMes(x.a, x.m)
    THEN [ok |-> TRUE, fecha |-> <<x.a, x.m, x.d>>]
    ELSE [ok |-> FALSE]

Vacio == [tipo |-> "vacio"]

---------------------------------------------------------------------------
(* ClientRegistry: the JSON document and its load / save *)

Ausente == [estado |-> "ausente"]

Corrupto == [estado |-> "corrupto"]

Documento(config) == [estado |-> "json", datos |-> config]

SinClientes == [k \in {} |-> 0]

\* cargar_configuracion without its except clause: the decode error of an
\* unparsable document reaches the caller
cargar_configuracion_sin_except(archivo) ==
    IF archivo.estado = "json"
    THEN [ok |-> TRUE, config |-> archivo.datos]
    ELSE IF archivo.estado = "ausente"
    THEN [ok |-> TRUE, config |-> SinClientes]
    ELSE [ok |-> FALSE, config |-> SinClientes]

\* cargar_configuracion: the bare except turns every read or parse failure
\* into the empty mapping
cargar_configuracion(archivo) ==
    IF archivo.estado = "json"
    THEN [ok |-> TRUE, config |-> archivo.datos]
    ELSE [ok |-> TRUE, config |-> SinClientes]

\* guardar_configuracion: open(CONFIG_FILE, 'w') and json.dump
guardar_configuracion(config) == Documento(config)

\* the assignment into a fresh dict: config = {cliente_id: registro}
Asignar_solo(config, k, registro) == [c \in {k} |-> registro]

\* config[cliente_id] = registro
Asignar(config, k, registro) ==
    [c \in DOMAIN config \cup {k} |-> IF c = k THEN registro ELSE config[c]]

\* obtener_nombres_reales: the real names of the records that carry one
obtener_nombres_reales(archivo) ==
    LET carga == cargar_configuracion(archivo)
    IN  IF ~carga.ok THEN [ok |-> FALSE]
        ELSE [ok |-> TRUE,
              nombres |-> [k \in {c \in DOMAIN carga.config :
                                      "nombre_real" \in DOMAIN carga.config[c]}
                              |-> carga.config[k].nombre_real]]

\* obtener_info_cliente: config.get(cliente_id, defaults)
obtener_info_cliente(cliente_id, archivo, ahora) ==
    LET carga == cargar_configuracion(archivo)
    IN  IF ~carga.ok THEN [ok |-> FALSE]
        ELSE [ok |-> TRUE,
              info |-> IF cliente_id \in DOMAIN carga.config
                       THEN carga.config[cliente_id]
                       ELSE [nombre_real |-> cliente_id,
                             versiones   |-> 1,
                             expiracion  |-> Strftime(SumarDias(ahora, 30)),
                             contacto    |-> <<>>,
                             activo      |-> TRUE]]

---------------------------------------------------------------------------
(* Ingestion: cargar_datos.  A file is [nombre, fecha, legible, filas,     *)
(* mtime]: fecha is the text re.search finds in the name (Vacio for no     *)
(* match), legible tells whether pd.read_csv returns, filas are its rows,  *)
(* mtime is the date of os.path.getmtime                                   *)

SinArchivos == [csv |-> <<>>, raiz |-> <<>>]

\* archivos: glob of CSV_FOLDER, or of the working directory when it is empty
Descubiertos(carpeta) == IF carpeta.csv # <<>> THEN carpeta.csv ELSE carpeta.raiz

\* df_temp with the columns Archivo and Fecha_Reporte
Etiquetar(archivo) ==
    LET reporte == IF archivo.fecha # Vacio THEN archivo.fecha
                   ELSE Strftime(archivo.mtime)
    IN  [i \in 1..Len(archivo.filas) |->
            [media   |-> archivo.filas[i].media,
             dur     |-> archivo.filas[i].dur,
             monitor |-> archivo.filas[i].monitor,
             pb      |-> archivo.filas[i].pb,
             Archivo |-> archivo.nombre,
             Fecha_Reporte |-> reporte]]

\* the body of the loop for one file: "omitido" is the continue of the
\* pre-filter, "error" the except branch (strptime of the name's date or
\* pd.read_csv raised), "leido" the append of df_temp
LeerArchivo(archivo, rango) ==
    LET p == Strptime(archivo.fecha)
    IN  IF archivo.fecha # Vacio /\ rango # <<>> /\ ~p.ok
        THEN [estado |-> "error", filas |-> <<>>]
        ELSE IF /\ archivo.fecha # Vacio /\ rango # <<>>
                /\ (\/ Ordinal(p.fecha) < Ordinal(rango[1])
                    \/ Ordinal(p.fecha) > Ordinal(rango[2]))
        THEN [estado |-> "omitido", filas |-> <<>>]
        ELSE IF ~archivo.legible
        THEN [estado |-> "error", filas |-> <<>>]
        ELSE [estado |-> "leido", filas |-> Etiquetar(archivo)]

\* the loop with the try around it instead of inside it: the first file that
\* raises ends the loading, and what was read before it is returned
RECURSIVE Concatenar_hasta_error(_, _)
Concatenar_hasta_error(archivos, rango) ==
    IF archivos = <<>> THEN <<>>
    ELSE LET r == LeerArchivo(Head(archivos), rango)
         IN  IF r.estado = "error" THEN <<>>
             ELSE r.filas \o Concatenar_hasta_error(Tail(archivos), rango)

\* the loop and pd.concat(datos, ignore_index=True): the rows of the files
\* read, in the order of the files
RECURSIVE Concatenar(_, _)
Concatenar(archivos, rango) ==
    IF archivos = <<>> THEN <<>>
    ELSE LeerArchivo(Head(archivos), rango).filas \o Concatenar(Tail(archivos), rango)

\* cargar_datos(rango_fechas) with the folder it reads
cargar_datos(carpeta, rango) == Concatenar(Descubiertos(carpeta), rango)

\* update_data up to line 987: the table is loaded again for the range
CargarDatos(rango) ==
    /\ df' = cargar_datos(csv_folder, rango)
    /\ rango_fechas' = rango
    /\ op' = "cargar"
    /\ UNCHANGED <<config_file, hoy, vars_contrato, vars_testigos, vars_tablero, vars_registro, vars_carrera, csv_folder, res,
                   fig_ingresos_mes, nombres>>

---------------------------------------------------------------------------
(* MetricsPipeline: procesar_datos *)

PRECIO_POR_CLIENTE == 15000

NaN == <<"NaN">>

S_sin_version == <<"s", "i", "n", "_", "v", "e", "r", "s", "i", "o", "n">>

Min(S) == CHOOSE x \in S : \A y \in S : x <= y

Max(S) == CHOOSE x \in S : \A y \in S : x >= y

\* Series.str.extract(r'(<prefijo>\d+)')[0]: the leftmost match, its digits
\* taken greedily, or NaN
Extraer(s, prefijo) ==
    LET n == Len(prefijo)
        inicios == {i \in 1..Len(s) : /\ i + n <= Len(s)
                                      /\ SubSeq(s, i, i + n - 1) = prefijo
                                      /\ s[i + n] \in Digitos}
    IN  IF inicios = {} THEN NaN
        ELSE LET i == Min(inicios)
                 j == Max({k \in (i + n)..Len(s) :
                              \A q \in (i + n)..k : s[q] \in Digitos})
             IN  SubSeq(s, i, j)

\* df['Cliente']
ExtraerCliente(media) == Extraer(media, S_cliente)

\* df['Version']: the match of _v\d+ without its underscore, else 'sin_version'
ExtraerVersion(media) ==
    LET v == Extraer(media, <<"_", "v">>)
    IN  IF v = NaN THEN S_sin_version ELSE Tail(v)

\* a timestamp <<a, m, d, h>> in hours
Instante(t) == Ordinal(<<t[1], t[2], t[3]>>) * 24 + t[4]

\* the mask without the day added to fecha_fin: Playback Date < fecha_fin
EnRango_sin_dia(fila, rango) ==
    /\ Instante(fila.pb) >= Ordinal(rango[1]) * 24
    /\ Instante(fila.pb) < Ordinal(rango[2]) * 24

\* the mask of the date filter: fecha_inicio <= Playback Date < fecha_fin + 1 day
EnRango(fila, rango) ==
    /\ Instante(fila.pb) >= Ordinal(rango[1]) * 24
    /\ Instante(fila.pb) < (Ordinal(rango[2]) + 1) * 24

\* the rescale written back to the column it reads:
\* df['Media Duration'] = df['Media Duration'] / 1000
Derivar_en_sitio(fila) ==
    [media    |-> fila.media,
     dur      |-> fila.dur \div 1000,
     monitor  |-> fila.monitor,
     pb       |-> fila.pb,
     Cliente  |-> ExtraerCliente(fila.media),
     segundos |-> [n |-> fila.dur, d |-> 1000],
     Version  |-> ExtraerVersion(fila.media),
     Mes      |-> <<fila.pb[1], fila.pb[2]>>,
     Dia_str  |-> <<fila.pb[1], fila.pb[2], fila.pb[3]>>]

\* the columns procesar_datos adds to a row
Derivar(fila) ==
    [media    |-> fila.media,
     dur      |-> fila.dur,
     monitor  |-> fila.monitor,
     pb       |-> fila.pb,
     Cliente  |-> ExtraerCliente(fila.media),
     segundos |-> [n |-> fila.dur, d |-> 1000],
     Version  |-> ExtraerVersion(fila.media),
     Mes      |-> <<fila.pb[1], fila.pb[2]>>,
     Dia_str  |-> <<fila.pb[1], fila.pb[2], fila.pb[3]>>]

\* the status loop run over the Cliente column itself instead of unique()
Unicos_sin_unique(s) == s

\* Series.unique(): the values in order of first appearance, NaN included
RECURSIVE Unicos(_)
Unicos(s) ==
    IF s = <<>> THEN <<>>
    ELSE LET u == Unicos(SubSeq(s, 1, Len(s) - 1))
             x == s[Len(s)]
         IN  IF \E i \in 1..Len(u) : u[i] = x THEN u ELSE Append(u, x)

\* Series.nunique(): NaN is not counted
NUnique(valores) == Cardinality(valores \ {NaN})

RECURSIVE SumaDe(_, _)
SumaDe(f, S) ==
    IF S = {} THEN 0
    ELSE LET x == CHOOSE y \in S : TRUE
         IN  f[x] + SumaDe(f, S \ {x})

Fraccion(n, d) == [n |-> n, d |-> d]

\* clientes_activos without the activo test: every configured key
ClientesActivos_todos(config) == DOMAIN config

\* clientes_activos: the keys whose record has activo true or no activo
ClientesActivos(config) ==
    {k \in DOMAIN config :
        IF "activo" \in DOMAIN config[k] THEN config[k].activo ELSE TRUE}

\* clientes_mes with the Ingresos column left as the client count
ClientesMes_sin_precio(filas, activos) ==
    LET idx   == {i \in 1..Len(filas) : filas[i].Cliente \in activos}
        meses == {filas[i].Mes : i \in idx}
    IN  [m \in meses |->
            LET n == NUnique({filas[i].Cliente : i \in {j \in idx : filas[j].Mes = m}})
            IN  [Cliente |-> n, Ingresos |-> n]]

\* clientes_mes: df_activos.groupby('Mes')['Cliente'].nunique(), with the
\* Ingresos column; one entry per month in which an active client is present
ClientesMes(filas, activos) ==
    LET idx   == {i \in 1..Len(filas) : filas[i].Cliente \in activos}
        meses == {filas[i].Mes : i \in idx}
    IN  [m \in meses |->
            LET n == NUnique({filas[i].Cliente : i \in {j \in idx : filas[j].Mes = m}})
            IN  [Cliente |-> n, Ingresos |-> n * PRECIO_POR_CLIENTE]]

\* the expression of line 195 with a fixed fee added to mean * price * months
IngresosCon_con_cuota(clientes_mes, precio) ==
    LET meses == DOMAIN clientes_mes
        suma  == SumaDe([m \in meses |-> clientes_mes[m].Cliente], meses)
    IN  IF meses = {} THEN Fraccion(0, 1)
        ELSE Fraccion((suma * precio + 1000) * Cardinality(meses), Cardinality(meses))

\* the expression of line 195 as a function of the value read from the global
\* PRECIO_POR_CLIENTE: mean * precio * nunique(Mes), the mean of the counts
\* of clientes_mes being 0 when it is empty; kept as an exact fraction
IngresosCon(clientes_mes, precio) ==
    LET meses == DOMAIN clientes_mes
        suma  == SumaDe([m \in meses |-> clientes_mes[m].Cliente], meses)
    IN  IF meses = {} THEN Fraccion(0, 1)
        ELSE Fraccion(suma * precio * Cardinality(meses), Cardinality(meses))

\* ingresos_totales without the month-count factor: mean * price
IngresosTotales_sin_meses(clientes_mes) ==
    LET meses == DOMAIN clientes_mes
        suma  == SumaDe([m \in meses |-> clientes_mes[m].Cliente], meses)
    IN  IF meses = {} THEN Fraccion(0, 1)
        ELSE Fraccion(suma * PRECIO_POR_CLIENTE, Cardinality(meses))

\* ingresos_totales = promedio_clientes_mes * PRECIO_POR_CLIENTE * nunique(Mes)
\* with promedio_clientes_mes the mean of the counts of clientes_mes, 0 when
\* it is empty; kept as an exact fraction
IngresosTotales(clientes_mes) == IngresosCon(clientes_mes, PRECIO_POR_CLIENTE)

\* the status expression with >= 7 in place of > 7
Estado_desde7(dias_restantes) ==
    IF dias_restantes >= 7 THEN "Activo"
    ELSE IF dias_restantes > 0 THEN "Por vencer"
    ELSE "Vencido"

\* the status expression of line 245
Estado(dias_restantes) ==
    IF dias_restantes > 7 THEN "Activo"
    ELSE IF dias_restantes > 0 THEN "Por vencer"
    ELSE "Vencido"

\* one pass of the status loop.  The try covers only the parse (a missing
\* key, a non-string and an unparsable text all end in the except branch);
\* the dict built after it reads four keys of info and raises KeyError for
\* a missing one
FilaEstado(cliente_id, archivo, ahora) ==
    LET o == obtener_info_cliente(cliente_id, archivo, ahora)
    IN  IF ~o.ok THEN [ok |-> FALSE]
        ELSE LET info == o.info
                 p    == IF "expiracion" \in DOMAIN info
                         THEN Strptime(info.expiracion) ELSE [ok |-> FALSE]
                 dias == IF p.ok THEN Ordinal(p.fecha) - Ordinal(ahora) ELSE 0
             IN  IF {"nombre_real", "expiracion", "contacto", "versiones"}
                        \subseteq DOMAIN info
                 THEN [ok |-> TRUE,
                       fila |-> [Cliente          |-> cliente_id,
                                 Nombre_Real      |-> info.nombre_real,
                                 Expiracion       |-> info.expiracion,
                                 Dias_Restantes   |-> dias,
                                 Estado           |-> IF p.ok THEN Estado(dias)
                                                      ELSE "Fecha invalida",
                                 Contacto         |-> info.contacto,
                                 Versiones_Config |-> info.versiones]]
                 ELSE [ok |-> FALSE]

\* estado_clientes: the loop over df['Cliente'].unique()
EstadoClientes(filas, archivo, ahora) ==
    LET ids == Unicos([i \in 1..Len(filas) |-> filas[i].Cliente])
        fs  == [i \in 1..Len(ids) |-> FilaEstado(ids[i], archivo, ahora)]
    IN  IF \A i \in 1..Len(ids) : fs[i].ok
        THEN [ok |-> TRUE, filas |-> [i \in 1..Len(ids) |-> fs[i].fila]]
        ELSE [ok |-> FALSE]

Excepcion == [error |-> TRUE]

SinMeses == [m \in {} |-> 0]

\* a grouped table without groups
SinGrupos == [g \in {} |-> 0]

\* the keys of df.groupby('Cliente'): dropna drops the NaN group
GruposCliente(filas) == {filas[i].Cliente : i \in 1..Len(filas)} \ {NaN}

\* the positions of the rows with filas[i][columna] = valor
FilasCon(filas, columna, valor) == {i \in 1..Len(filas) : filas[i][columna] = valor}

\* ocupacion: seconds per monitor / 3600
Ocupacion(filas) ==
    [mon \in {filas[i].monitor : i \in 1..Len(filas)} |->
        LET idx == FilasCon(filas, "monitor", mon)
        IN  Fraccion(SumaDe([i \in idx |-> filas[i].dur], idx), 1000 * 3600)]

\* clientes_por_mes: df.groupby('Mes')['Cliente'].nunique()
ClientesPorMes(filas) ==
    [m \in {filas[i].Mes : i \in 1..Len(filas)} |->
        NUnique({filas[i].Cliente : i \in FilasCon(filas, "Mes", m)})]

\* primer_aparicion taken from the latest Playback Date of each client:
\* groupby('Cliente')['Playback Date'].max()
PrimerAparicion_ultima(filas) ==
    [c \in GruposCliente(filas) |->
        LET idx == FilasCon(filas, "Cliente", c)
            i0  == CHOOSE i \in idx : \A j \in idx : Instante(filas[i].pb) >= Instante(filas[j].pb)
        IN  filas[i0].Mes]

\* primer_aparicion: the month of the earliest Playback Date of each client
PrimerAparicion(filas) ==
    [c \in GruposCliente(filas) |->
        LET idx == FilasCon(filas, "Cliente", c)
            i0  == CHOOSE i \in idx : \A j \in idx : Instante(filas[i].pb) <= Instante(filas[j].pb)
        IN  filas[i0].Mes]

\* clientes_nuevos_mes: primer_aparicion.value_counts()
ClientesNuevosMes(filas) ==
    LET pa == PrimerAparicion(filas)
    IN  [m \in {pa[c] : c \in DOMAIN pa} |-> Cardinality({c \in DOMAIN pa : pa[c] = m})]

\* campanas, frecuencia_clientes and top_clientes_reproducciones: the number
\* of rows of each client
Campanas(filas) ==
    [c \in GruposCliente(filas) |-> Cardinality(FilasCon(filas, "Cliente", c))]

\* evolucion_diaria counted over the rows with a client id only:
\* df.groupby('Dia_str')['Cliente'].count()
EvolucionDiaria_con_cliente(filas) ==
    [dia \in {filas[i].Dia_str : i \in 1..Len(filas)} |->
        Cardinality({i \in FilasCon(filas, "Dia_str", dia) : filas[i].Cliente # NaN})]

\* evolucion_diaria: df.groupby('Dia_str').size()
EvolucionDiaria(filas) ==
    [dia \in {filas[i].Dia_str : i \in 1..Len(filas)} |->
        Cardinality(FilasCon(filas, "Dia_str", dia))]

\* versiones_por_cliente: df.groupby('Cliente')['Version'].nunique()
VersionesPorCliente(filas) ==
    [c \in GruposCliente(filas) |->
        NUnique({filas[i].Version : i \in FilasCon(filas, "Cliente", c)})]

\* Total Horas taken from the raw column: sum(Media Duration) / 3600
TiempoPorCliente_desde_ms(filas) ==
    [c \in GruposCliente(filas) |->
        LET idx == FilasCon(filas, "Cliente", c)
            ms  == SumaDe([i \in idx |-> filas[i].dur], idx)
        IN  [Total_Segundos |-> Fraccion(ms, 1000),
             Total_Horas    |-> Fraccion(ms, 3600),
             Total_Minutos  |-> Fraccion(ms, 1000 * 60)]]

\* tiempo_por_cliente: the sum of Media Duration Seconds of each client (the
\* column holds thousandths), and that sum / 3600 and / 60
TiempoPorCliente(filas) ==
    [c \in GruposCliente(filas) |->
        LET idx == FilasCon(filas, "Cliente", c)
            ms  == SumaDe([i \in idx |-> filas[i].segundos.n], idx)
        IN  [Total_Segundos |-> Fraccion(ms, 1000),
             Total_Horas    |-> Fraccion(ms, 1000 * 3600),
             Total_Minutos  |-> Fraccion(ms, 1000 * 60)]]

\* the tuple returned for an empty DataFrame
ResultadoVacio ==
    [error |-> FALSE, df |-> <<>>, ocupacion |-> SinGrupos, clientes_unicos |-> 0,
     ingresos_totales |-> Fraccion(0, 1), clientes_por_mes |-> SinMeses,
     clientes_nuevos_mes |-> SinMeses, clientes_mes |-> SinMeses,
     campanas |-> SinGrupos, frecuencia_clientes |-> SinGrupos,
     top_clientes_reproducciones |-> SinGrupos, evolucion_diaria |-> SinGrupos,
     versiones_por_cliente |-> SinGrupos, tiempo_por_cliente |-> SinGrupos,
     estado_clientes |-> <<>>]

\* procesar_datos from line 149 on: the filter, the derived columns and the
\* aggregates of a table with rows
Agregar(tabla, rango, archivo, ahora) ==
    LET Dentro(fila) == EnRango(fila, rango)
        filtrado == IF rango # <<>> THEN SelectSeq(tabla, Dentro) ELSE tabla
        filas    == [i \in 1..Len(filtrado) |-> Derivar(filtrado[i])]
        carga    == cargar_configuracion(archivo)
    IN  IF ~carga.ok THEN Excepcion
        ELSE
        LET activos == ClientesActivos(carga.config)
            cmes    == IF activos # {} THEN ClientesMes(filas, activos) ELSE SinMeses
            estados == EstadoClientes(filas, archivo, ahora)
        IN  IF ~estados.ok THEN Excepcion
            ELSE [error            |-> FALSE,
                  df               |-> filas,
                  ocupacion        |-> Ocupacion(filas),
                  clientes_unicos  |-> NUnique({filas[i].Cliente : i \in 1..Len(filas)}),
                  ingresos_totales |-> IF activos # {} THEN IngresosTotales(cmes)
                                       ELSE Fraccion(0, 1),
                  clientes_por_mes    |-> ClientesPorMes(filas),
                  clientes_nuevos_mes |-> ClientesNuevosMes(filas),
                  clientes_mes     |-> cmes,
                  campanas         |-> Campanas(filas),
                  frecuencia_clientes |-> Campanas(filas),
                  top_clientes_reproducciones |-> Campanas(filas),
                  evolucion_diaria |-> EvolucionDiaria(filas),
                  versiones_por_cliente |-> VersionesPorCliente(filas),
                  tiempo_por_cliente |-> TiempoPorCliente(filas),
                  estado_clientes  |-> estados.filas]

\* procesar_datos without its first test: the frame without columns that
\* cargar_datos returns for no data has no date column and line 157 or 161
\* raises
procesar_datos_sin_retorno(tabla, rango, archivo, ahora) ==
    IF tabla = <<>> THEN Excepcion
    ELSE Agregar(tabla, rango, archivo, ahora)

\* procesar_datos(df, rango_fechas) with the file and the clock it reads
procesar_datos(tabla, rango, archivo, ahora) ==
    IF tabla = <<>> THEN ResultadoVacio
    ELSE Agregar(tabla, rango, archivo, ahora)

SinResultado == [error |-> FALSE, pendiente |-> TRUE]

SinPanel ==
    /\ csv_folder = SinArchivos
    /\ df = <<>>
    /\ rango_fechas = <<>>
    /\ res = SinResultado
    /\ fig_ingresos_mes = SinMeses
    /\ nombres = [ok |-> TRUE, nombres |-> SinClientes]

\* the columns assigned in place: without a date filter df is the caller's
\* table and lines 161-176 add the derived columns to it; with a filter they
\* go to the filtered copy
TablaTrasProcesar(tabla, rango) ==
    IF tabla # <<>> /\ rango = <<>>
    THEN [i \in 1..Len(tabla) |-> Derivar(tabla[i])]
    ELSE tabla

\* ingresos_mes_data of update_data: clientes_por_mes with the column
\* Ingresos = Total Clientes * PRECIO_POR_CLIENTE, or the empty figure
IngresosMesData(clientes_por_mes) ==
    [m \in DOMAIN clientes_por_mes |-> clientes_por_mes[m] * PRECIO_POR_CLIENTE]

\* one aggregation pass over the table, and the monthly revenue series
\* update_data draws from its result (outputs stay when the pass raises)
ProcesarDatos ==
    /\ res' = procesar_datos(df, rango_fechas, config_file, hoy)
    /\ df' = TablaTrasProcesar(df, rango_fechas)
    /\ fig_ingresos_mes' = IF res'.error THEN fig_ingresos_mes
                           ELSE IngresosMesData(res'.clientes_por_mes)
    /\ op' = "procesar"
    /\ UNCHANGED <<config_file, hoy, vars_contrato, vars_testigos, vars_tablero, vars_registro, vars_carrera, csv_folder, rango_fechas,
                   nombres>>

\* one resolution of the display names
ObtenerNombresReales ==
    /\ nombres' = obtener_nombres_reales(config_file)
    /\ op' = "nombres"
    /\ UNCHANGED <<config_file, hoy, vars_contrato, vars_testigos, vars_tablero, vars_registro, vars_carrera, csv_folder, df,
                   rango_fechas, res, fig_ingresos_mes>>

---------------------------------------------------------------------------
(* generar_contrato: the callback of the contract form.  A number input is *)
(* <<>> when it is empty (None) and <<n>> otherwise; amounts of money are  *)
(* kept in hundredths, which is what the format ',.2f' prints              *)

MaxClicks == 2

MensajeSinContrato == "sin_contrato"

MensajeCampos == "campos_obligatorios"

MensajeContrato == "contrato_generado"

MensajeErrorPdf == "error_pdf"

SinPdf == [vacio |-> TRUE]

\* the layout: value=0 for the four number inputs, no click yet
FormularioContrato ==
    [n_clicks |-> 0, precio |-> <<0>>, descuento |-> <<0>>, iva |-> <<0>>,
     total |-> <<0>>, obligatorios |-> FALSE, salida |-> MensajeSinContrato]

SinContrato ==
    /\ form_contrato = FormularioContrato
    /\ pdf_contrato = SinPdf

\* x or 0
ValorO0(x) == IF x = <<>> THEN 0 ELSE x[1]

\* total of lines 1189-1193, in hundredths: precio - precio * (descuento / 100)
\* + iva when the three inputs are not None, else 0
TotalContrato(precio, descuento, iva) ==
    IF precio # <<>> /\ descuento # <<>> /\ iva # <<>>
    THEN 100 * precio[1] - precio[1] * descuento[1] + 100 * iva[1]
    ELSE 0

\* the pricing entries of datos_contrato, as printed
DatosContrato(f) ==
    [precio_base |-> 100 * ValorO0(f.precio),
     descuento   |-> ValorO0(f.descuento),
     iva         |-> 100 * ValorO0(f.iva),
     total       |-> TotalContrato(f.precio, f.descuento, f.iva)]

\* generar_contrato(...) for the form f, the triggering component and the
\* outcome of generar_contrato_pdf; returns the form after the outputs are
\* applied and the PDF written, if any
generar_contrato(f, trigger, pdf_ok, pdf) ==
    IF f.n_clicks = 0 THEN [form |-> f, pdf |-> pdf]
    ELSE LET total == <<TotalContrato(f.precio, f.descuento, f.iva)>>
         IN  IF trigger # "btn-generar-contrato"
             THEN [form |-> [f EXCEPT !.total = total], pdf |-> pdf]
             ELSE IF ~f.obligatorios
             THEN [form |-> [f EXCEPT !.total = total, !.salida = MensajeCampos],
                   pdf |-> pdf]
             ELSE IF pdf_ok
             THEN [form |-> [f EXCEPT !.total = total, !.salida = MensajeContrato],
                   pdf |-> DatosContrato(f)]
             ELSE [form |-> [f EXCEPT !.total = total, !.salida = MensajeErrorPdf],
                   pdf |-> pdf]

\* the user changes a pricing input: the callback runs with that trigger
CambiarEntrada(campo, valor) ==
    /\ form_contrato[campo] # valor
    /\ LET r == generar_contrato([form_contrato EXCEPT ![campo] = valor],
                                 "contrato-" \o campo, TRUE, pdf_contrato)
       IN  /\ form_contrato' = r.form
           /\ pdf_contrato' = r.pdf
    /\ op' = campo
    /\ UNCHANGED <<config_file, hoy, vars_registro, vars_carrera, vars_testigos, vars_tablero,
                   vars_panel>>

\* the user clicks the button: n_clicks grows and the callback runs
ClickGenerar(pdf_ok) ==
    /\ form_contrato.n_clicks < MaxClicks
    /\ LET r == generar_contrato([form_contrato EXCEPT !.n_clicks = @ + 1],
                                 "btn-generar-contrato", pdf_ok, pdf_contrato)
       IN  /\ form_contrato' = r.form
           /\ pdf_contrato' = r.pdf
    /\ op' = "generar"
    /\ UNCHANGED <<config_file, hoy, vars_registro, vars_carrera, vars_testigos, vars_tablero,
                   vars_panel>>

\* the user types in the Total input or fills / clears the required fields:
\* these are not Inputs of the callback and nothing runs
EditarSinCallback(campo, valor) ==
    /\ form_contrato[campo] # valor
    /\ form_contrato' = [form_contrato EXCEPT ![campo] = valor]
    /\ op' = "editar"
    /\ UNCHANGED <<config_file, hoy, vars_registro, vars_carrera, vars_testigos, vars_tablero,
                   vars_panel, pdf_contrato>>

---------------------------------------------------------------------------
(* guardar_cliente: the save-client callback *)

MensajeVacio == "vacio"

MensajeErrorId == "error_id"

MensajeGuardado == "guardado"

NoUpdate == "no_update"

\* mutant of IdValido: the prefix test replaced by a test that the id holds a 'c'
IdValido_contiene(cliente_id) ==
    \E i \in 1..Len(cliente_id) : cliente_id[i] = "c"

\* not cliente_id.startswith('cliente') is the only validation of the id
IdValido(cliente_id) == StartsWith(cliente_id, S_cliente)

\* bool(activo) of the checklist value, a list
Bool(lista) == Len(lista) # 0

\* the dict literal assigned to config[cliente_id]: every key is rebuilt from
\* the form, x or default
RegistroCliente(f, ahora) ==
    [nombre_real |-> IF f.nombre_real # <<>> THEN f.nombre_real ELSE f.cliente_id,
     versiones   |-> IF f.versiones # 0 THEN f.versiones ELSE 1,
     expiracion  |-> IF f.expiracion # Vacio THEN f.expiracion
                     ELSE Strftime(SumarDias(ahora, 30)),
     contacto    |-> IF f.contacto # <<>> THEN f.contacto ELSE <<>>,
     activo      |-> Bool(f.activo)]

\* crear_tabla_clientes_config: each row adds two dbc.Button objects with +,
\* which the component classes do not define, so a non-empty registry raises
\* TypeError; the empty registry returns the placeholder Div
crear_tabla_clientes_config(archivo) ==
    LET carga == cargar_configuracion(archivo)
    IN  IF carga.ok /\ carga.config = SinClientes
        THEN [ok |-> TRUE]
        ELSE [ok |-> FALSE]

\* The callback body: the file it leaves, what it returns for
\* 'output-guardar-cliente' (NoUpdate also when the callback raises) and for
\* 'stored-config' (emitida tells whether a value is returned for it)
guardar_cliente(f, archivo, ahora) ==
    IF f.n_clicks = 0 \/ f.cliente_id = <<>>
    THEN [archivo |-> archivo, salida |-> NoUpdate, emitida |-> FALSE, config |-> SinClientes]
    ELSE IF ~IdValido(f.cliente_id)
    THEN [archivo |-> archivo, salida |-> MensajeErrorId, emitida |-> FALSE,
          config |-> SinClientes]
    ELSE LET carga   == cargar_configuracion(archivo)
             config  == Asignar(carga.config, f.cliente_id, RegistroCliente(f, ahora))
             escrito == guardar_configuracion(config)
             tabla   == crear_tabla_clientes_config(escrito)
         IN  IF ~carga.ok
             THEN [archivo |-> archivo, salida |-> NoUpdate, emitida |-> FALSE,
                   config |-> SinClientes]
             ELSE [archivo |-> escrito,
                   salida  |-> IF tabla.ok THEN MensajeGuardado ELSE NoUpdate,
                   emitida |-> tabla.ok,
                   config  |-> config]

GuardarCliente(f) ==
    LET r == guardar_cliente(f, config_file, hoy)
    IN  /\ config_file' = r.archivo
        /\ salida_guardar' = IF r.salida = NoUpdate THEN salida_guardar ELSE r.salida
        /\ entrada' = f
        /\ stored_config' = IF r.emitida THEN r.config ELSE stored_config
        /\ pendientes' = IF r.emitida THEN pendientes \cup {"update_data"} ELSE pendientes
        /\ op' = "guardar"
        /\ UNCHANGED <<hoy, vars_contrato, vars_testigos, vars_carrera, vars_panel,
                       stored_fechas, mensaje_filtro>>

---------------------------------------------------------------------------
(* Two guardar_cliente requests served concurrently.  The callback takes no *)
(* lock, so the requests interleave at its file operations: the read in     *)
(* cargar_configuracion, the truncating open of guardar_configuracion and   *)
(* the write of json.dump when the with block closes the file.              *)

Procs == {1, 2}

SinCarrera ==
    /\ pc = [p \in Procs |-> "hecho"]
    /\ peticion = [p \in Procs |-> 0]
    /\ leido = [p \in Procs |-> SinClientes]
    /\ escritor = 0

\* mutant of ConfigDe: the record is merged into the document found on disk
\* at write time instead of into the request's own earlier read
ConfigDe_fusiona(p) ==
    Asignar(IF config_file.estado = "json" THEN config_file.datos ELSE leido[p],
            peticion[p].cliente_id, RegistroCliente(peticion[p], hoy))

\* what request p passes to guardar_configuracion
ConfigDe(p) ==
    Asignar(leido[p], peticion[p].cliente_id, RegistroCliente(peticion[p], hoy))

\* config = cargar_configuracion(), after the two guards on the id
Leer(p) ==
    /\ pc[p] = "inicio"
    /\ peticion[p].n_clicks # 0 /\ peticion[p].cliente_id # <<>>
    /\ IdValido(peticion[p].cliente_id)
    /\ leido' = [leido EXCEPT ![p] = cargar_configuracion(config_file).config]
    /\ pc' = [pc EXCEPT ![p] = "leido"]
    /\ UNCHANGED <<config_file, hoy, vars_contrato, vars_testigos, vars_tablero, vars_registro, vars_panel, op, peticion, escritor>>

\* open(CONFIG_FILE, 'w'): the file is truncated to zero bytes, which
\* json.load cannot parse
Abrir(p) ==
    /\ pc[p] = "leido"
    /\ config_file' = Corrupto
    /\ pc' = [pc EXCEPT ![p] = "abierto"]
    /\ UNCHANGED <<hoy, vars_contrato, vars_testigos, vars_tablero, vars_registro, vars_panel, op, peticion, leido, escritor>>

\* json.dump and close: the text is written from offset 0.  Onto an empty
\* file that leaves p's document; onto text another request wrote since p
\* truncated, it leaves p's document when p's text is at least as long and
\* p's text followed by the rest of the other text, unparsable, when shorter
Volcar(p) ==
    /\ pc[p] = "abierto"
    /\ \/ config_file' = guardar_configuracion(ConfigDe(p))
       \/ /\ config_file.estado = "json"
          /\ config_file' = Corrupto
    /\ pc' = [pc EXCEPT ![p] = "hecho"]
    /\ escritor' = p
    /\ UNCHANGED <<hoy, vars_contrato, vars_testigos, vars_tablero, vars_registro, vars_panel, op, peticion, leido>>

---------------------------------------------------------------------------
(* ArtifactExporters: the witness export.  The folder 'videos' is          *)
(* [existe, archivos]: whether os.path.exists finds it and the names of    *)
(* its files in the order os.walk lists them; a witness path is [raiz,     *)
(* azar] for testigo_<raiz>_<azar>.txt in TESTIGOS_FOLDER                  *)

Mayusculas ==
    <<"A", "B", "C", "D", "E", "F", "G", "H", "I", "J", "K", "L", "M",
      "N", "O", "P", "Q", "R", "S", "T", "U", "V", "W", "X", "Y", "Z">>

Minusculas ==
    <<"a", "b", "c", "d", "e", "f", "g", "h", "i", "j", "k", "l", "m",
      "n", "o", "p", "q", "r", "s", "t", "u", "v", "w", "x", "y", "z">>

\* the lower-case letter of each upper-case letter
EnMinuscula ==
    [c \in {Mayusculas[k] : k \in 1..Len(Mayusculas)} |->
        Minusculas[CHOOSE k \in 1..Len(Mayusculas) : Mayusculas[k] = c]]

\* str.lower()
Lower(s) ==
    [i \in 1..Len(s) |-> IF s[i] \in DOMAIN EnMinuscula THEN EnMinuscula[s[i]] ELSE s[i]]

\* sub in s
Contiene(s, sub) ==
    \E i \in 1..(Len(s) - Len(sub) + 1) : SubSeq(s, i, i + Len(sub) - 1) = sub

\* s.endswith(sufijo)
EndsWith(s, sufijo) ==
    /\ Len(sufijo) <= Len(s)
    /\ SubSeq(s, Len(s) - Len(sufijo) + 1, Len(s)) = sufijo

\* the tuple of extensions buscar_videos_cliente accepts
Extensiones ==
    {<<".", "m", "p", "4">>, <<".", "m", "o", "v">>, <<".", "a", "v", "i">>,
     <<".", "m", "k", "v">>, <<".", "t", "x", "t">>}

S_ejemplo == <<"_", "e", "j", "e", "m", "p", "l", "o", ".", "t", "x", "t">>

\* os.path.splitext(nombre)[0]: the name up to its last dot, the whole name
\* when it has no dot after its first character
Raiz(nombre) ==
    LET puntos == {i \in 2..Len(nombre) : nombre[i] = "."}
    IN  IF puntos = {} THEN nombre ELSE SubSeq(nombre, 1, Max(puntos) - 1)

SinVideos == [existe |-> FALSE, archivos |-> <<>>]

\* buscar_videos_cliente: the files of the folder whose name holds the id
\* and ends, in lower case, with one of the extensions; [] without folder
buscar_videos_cliente(carpeta, cliente_id) ==
    LET Coincide(file) ==
            /\ Contiene(file, cliente_id)
            /\ \E e \in Extensiones : EndsWith(Lower(file), e)
    IN  IF carpeta.existe THEN SelectSeq(carpeta.archivos, Coincide) ELSE <<>>

\* extraer_testigo: None (<<>>) for a source that does not exist, else the
\* path it writes, named after the source and a number drawn in 0..999
extraer_testigo(carpeta, video, azar) ==
    IF ~\E i \in 1..Len(carpeta.archivos) : carpeta.archivos[i] = video
    THEN <<>>
    ELSE <<[raiz |-> Raiz(video), azar |-> azar]>>

\* the slice that ignores the count asked for: the first source only
Primeros_uno(lista, cantidad) == SubSeq(lista, 1, Min({1, Len(lista)}))

\* videos[:min(cantidad, len(videos))], for cantidad >= 0
Primeros(lista, cantidad) == SubSeq(lista, 1, Min({cantidad, Len(lista)}))

\* the loop of exportar_testigos_cliente from the i-th source on: the paths
\* extraer_testigo returned, None left out
RECURSIVE Extraidos(_, _, _, _)
Extraidos(carpeta, fuentes, azar, i) ==
    IF i > Len(fuentes) THEN <<>>
    ELSE extraer_testigo(carpeta, fuentes[i], azar[i])
             \o Extraidos(carpeta, fuentes, azar, i + 1)

\* exportar_testigos_cliente: the folder it leaves, whether it wrote the
\* example source, and the list it returns; azar[i] is the number drawn for
\* the i-th source
exportar_testigos_cliente(carpeta, cliente_id, cantidad, azar) ==
    LET hallados == buscar_videos_cliente(carpeta, cliente_id)
        ejemplo  == cliente_id \o S_ejemplo
        despues  == IF hallados = <<>>
                    THEN [existe |-> TRUE, archivos |-> Append(carpeta.archivos, ejemplo)]
                    ELSE carpeta
        fuentes  == Primeros(IF hallados = <<>> THEN <<ejemplo>> ELSE hallados, cantidad)
    IN  [videos |-> despues,
         ejemplo_creado |-> hallados = <<>>,
         testigos_exportados |-> Extraidos(despues, fuentes, azar, 1)]

SinExportacion ==
    [llamadas |-> 0, cliente_id |-> <<>>, cantidad |-> 0, ejemplo_creado |-> FALSE,
     testigos_exportados |-> <<>>]

SinTestigos ==
    /\ videos = SinVideos
    /\ testigos = {}
    /\ exportacion = SinExportacion

MaxExportaciones == 2

\* one call exportar_testigos_cliente(cliente_id, cantidad)
ExportarTestigos(cliente_id, cantidad, azar) ==
    /\ exportacion.llamadas < MaxExportaciones
    /\ LET r == exportar_testigos_cliente(videos, cliente_id, cantidad, azar)
       IN  /\ videos' = r.videos
           /\ testigos' = testigos \cup
                  {r.testigos_exportados[i] : i \in 1..Len(r.testigos_exportados)}
           /\ exportacion' = [llamadas |-> exportacion.llamadas + 1,
                              cliente_id |-> cliente_id, cantidad |-> cantidad,
                              ejemplo_creado |-> r.ejemplo_creado,
                              testigos_exportados |-> r.testigos_exportados]
    /\ op' = "testigos"
    /\ UNCHANGED <<config_file, hoy, vars_registro, vars_carrera, vars_panel,
                   vars_contrato, vars_tablero>>

---------------------------------------------------------------------------
(* The dashboard callbacks: update_data and actualizar_fechas_almacenadas. *)
(* The dates of the two pickers are '' (Vacio) or a date text.  A click on *)
(* the filter button triggers both callbacks at once; stored-fechas is a   *)
(* State of update_data, not an Input, so update_data is sent with the     *)
(* value the store held before the click                                   *)

\* the page as it is served: no stored dates, the registry read by the
\* layout in stored-config, and the initial call of update_data to come
SinTablero ==
    /\ stored_fechas = [inicio |-> Vacio, fin |-> Vacio]
    /\ stored_config = cargar_configuracion(config_file).config
    /\ pendientes = {"update_data"}
    /\ mensaje_filtro = <<>>

\* two digits of a date text
DosDigitos(n) == IF n < 10 THEN "0" \o ToString(n) ELSE ToString(n)

\* nombre_archivo = f"{fecha_actual}_{filename}"
NombreConFecha(ahora, filename) ==
    ToString(ahora[1]) \o "-" \o DosDigitos(ahora[2]) \o "-" \o DosDigitos(ahora[3])
        \o "_" \o filename

\* df.to_csv(ruta_archivo): the file replaces one of the same name
GuardarCSV(listado, archivo) ==
    IF \E i \in 1..Len(listado) : listado[i].nombre = archivo.nombre
    THEN [i \in 1..Len(listado) |->
             IF listado[i].nombre = archivo.nombre THEN archivo ELSE listado[i]]
    ELSE Append(listado, archivo)

\* parse_contents: an upload [nombre, csv, legible, filas] whose name holds
\* 'csv' and whose content parses is written to CSV_FOLDER under today's
\* date; the first date re.search finds in the new name is that prefix
parse_contents(carpeta, subida, ahora) ==
    IF subida.csv /\ subida.legible
    THEN [csv  |-> GuardarCSV(carpeta.csv,
                              [nombre  |-> NombreConFecha(ahora, subida.nombre),
                               fecha   |-> Strftime(ahora),
                               legible |-> TRUE,
                               filas   |-> subida.filas,
                               mtime   |-> ahora]),
          raiz |-> carpeta.raiz]
    ELSE carpeta

\* actualizar_fechas_almacenadas: the picker dates once the button has been
\* clicked
actualizar_fechas_almacenadas(n_clicks, fecha_inicio, fecha_fin, almacenadas) ==
    IF n_clicks # 0 THEN [inicio |-> fecha_inicio, fin |-> fecha_fin] ELSE almacenadas

\* rango_fechas and mensaje_filtro of update_data: the picker dates on a
\* click with both set, else the stored dates when both are set, else None
RangoAplicado(trigger_id, fecha_inicio, fecha_fin, fechas_actuales) ==
    IF trigger_id = "btn-filtrar-fechas" /\ fecha_inicio # Vacio /\ fecha_fin # Vacio
    THEN [rango   |-> <<Strptime(fecha_inicio).fecha, Strptime(fecha_fin).fecha>>,
          mensaje |-> <<fecha_inicio, fecha_fin>>]
    ELSE IF fechas_actuales.inicio # Vacio /\ fechas_actuales.fin # Vacio
    THEN [rango   |-> <<Strptime(fechas_actuales.inicio).fecha,
                        Strptime(fechas_actuales.fin).fecha>>,
          mensaje |-> <<fechas_actuales.inicio, fechas_actuales.fin>>]
    ELSE [rango |-> <<>>, mensaje |-> <<>>]

\* update_data: the upload is saved, the range is chosen, the folder is
\* loaded for it and aggregated; when the pass raises no output changes
update_data(trigger_id, subida, fecha_inicio, fecha_fin) ==
    LET carpeta == IF trigger_id = "upload-data"
                   THEN parse_contents(csv_folder, subida, hoy) ELSE csv_folder
        r       == RangoAplicado(trigger_id, fecha_inicio, fecha_fin, stored_fechas)
        tabla   == cargar_datos(carpeta, r.rango)
    IN  /\ csv_folder' = carpeta
        /\ rango_fechas' = r.rango
        /\ df' = TablaTrasProcesar(tabla, r.rango)
        /\ res' = procesar_datos(tabla, r.rango, config_file, hoy)
        /\ fig_ingresos_mes' = IF res'.error THEN fig_ingresos_mes
                               ELSE IngresosMesData(res'.clientes_por_mes)
        /\ nombres' = IF res'.error THEN nombres ELSE obtener_nombres_reales(config_file)
        /\ mensaje_filtro' = IF res'.error THEN mensaje_filtro ELSE r.mensaje
        /\ op' = trigger_id

\* the call of update_data that the page load or a changed stored-config
\* triggers: trigger_id is neither the upload nor the button
ActualizarPendiente ==
    /\ "update_data" \in pendientes
    /\ update_data("stored-config", <<>>, Vacio, Vacio)
    /\ pendientes' = pendientes \ {"update_data"}
    /\ UNCHANGED <<config_file, hoy, vars_registro, vars_carrera, vars_contrato,
                   vars_testigos, stored_fechas, stored_config>>

\* a click on the filter button with the pickers at fecha_inicio, fecha_fin
ClickFiltrar(fecha_inicio, fecha_fin) ==
    /\ update_data("btn-filtrar-fechas", <<>>, fecha_inicio, fecha_fin)
    /\ stored_fechas' = actualizar_fechas_almacenadas(1, fecha_inicio, fecha_fin,
                                                      stored_fechas)
    /\ UNCHANGED <<config_file, hoy, vars_registro, vars_carrera, vars_contrato,
                   vars_testigos, stored_config, pendientes>>

\* an upload of one file; the picker dates are read only on a click
SubirArchivo(subida) ==
    /\ update_data("upload-data", subida, Vacio, Vacio)
    /\ UNCHANGED <<config_file, hoy, vars_registro, vars_carrera, vars_contrato,
                   vars_testigos, stored_fechas, stored_config, pendientes>>

---------------------------------------------------------------------------
(* Inputs of the registry specification *)

Hoy0 == <<2025, 1, 25>>

F_expira == Strftime(<<2025, 2, 1>>)

\* the form as the page first renders it (layout defaults), n_clicks None
FormularioInicial ==
    [n_clicks |-> 0, cliente_id |-> <<>>, nombre_real |-> <<>>, versiones |-> 1,
     expiracion |-> Strftime(SumarDias(Hoy0, 30)), contacto |-> <<>>, activo |-> <<1>>]

IdsFormulario == {<<>>, S_acme, S_cliente1, S_clienteABC}

\* every combination of empty and filled text fields with the switch on, and
\* the filled form with the switch off
Formularios ==
    {FormularioInicial} \cup
    [n_clicks : {1}, cliente_id : IdsFormulario, nombre_real : {<<>>, S_nombre},
     versiones : {0, 3}, expiracion : {Vacio, F_expira},
     contacto : {<<>>, S_contacto}, activo : {<<1>>}] \cup
    [n_clicks : {1}, cliente_id : IdsFormulario, nombre_real : {S_nombre},
     versiones : {3}, expiracion : {F_expira},
     contacto : {S_contacto}, activo : {<<>>}]

RegistroInicial ==
    [nombre_real |-> S_nombre, versiones |-> 3, expiracion |-> F_expira,
     contacto |-> S_contacto, activo |-> TRUE]

ArchivosIniciales ==
    {Ausente, Corrupto, Documento(SinClientes),
     Documento(Asignar(SinClientes, S_cliente1, RegistroInicial))}

InitRegistro ==
    /\ config_file \in ArchivosIniciales
    /\ hoy = Hoy0
    /\ SinContrato
    /\ SinTestigos
    /\ SinTablero
    /\ entrada = FormularioInicial
    /\ salida_guardar = MensajeVacio
    /\ SinCarrera
    /\ SinPanel
    /\ op = "inicio"

NextRegistro == \E f \in Formularios : GuardarCliente(f)

SpecRegistro == InitRegistro /\ [][NextRegistro]_vars

---------------------------------------------------------------------------
(* Inputs of the concurrent-save specification: two requests for different *)
(* client ids                                                              *)

FormulariosDe(id) ==
    [n_clicks : {1}, cliente_id : {id}, nombre_real : {<<>>, S_nombre},
     versiones : {0, 3}, expiracion : {F_expira},
     contacto : {<<>>}, activo : {<<1>>}]

RegistroPrevio ==
    [nombre_real |-> S_nombre, versiones |-> 1, expiracion |-> F_expira,
     contacto |-> <<>>, activo |-> TRUE]

InitCarrera ==
    /\ config_file \in {Ausente, Documento(SinClientes),
                         Documento(Asignar(SinClientes, S_clienteABC, RegistroPrevio))}
    /\ hoy = Hoy0
    /\ SinContrato
    /\ SinTestigos
    /\ SinTablero
    /\ entrada = FormularioInicial
    /\ salida_guardar = MensajeVacio
    /\ pc = [p \in Procs |-> "inicio"]
    /\ peticion \in {q \in [Procs -> FormulariosDe(S_cliente1) \cup FormulariosDe(S_cliente2)] :
                         q[1].cliente_id = S_cliente1 /\ q[2].cliente_id = S_cliente2}
    /\ leido = [p \in Procs |-> SinClientes]
    /\ escritor = 0
    /\ SinPanel
    /\ op = "inicio"

NextCarrera == \E p \in Procs : Leer(p) \/ Abrir(p) \/ Volcar(p)

SpecCarrera == InitCarrera /\ [][NextCarrera]_vars

---------------------------------------------------------------------------
(* Inputs of the aggregation specification: a table of at most MaxFilas    *)
(* rows, an optional range, and a registry document that may have been     *)
(* edited by hand                                                          *)

MaxFilas == 3

M_cliente1_v1 == S_cliente1 \o <<"_", "v", "1">>

M_promo == <<"p", "r", "o", "m", "o">>

FilasPosibles ==
    [media : {M_cliente1_v1, S_cliente2, M_promo}, dur : {6000}, monitor : {"P1"},
     pb : {<<2025, 1, 31, 23>>, <<2025, 2, 1, 0>>}]

Tablas == UNION {[1..n -> FilasPosibles] : n \in 0..MaxFilas}

Rangos == {<<>>, <<(<<2025, 2, 1>>), (<<2025, 2, 28>>)>>}

Registro(expiracion, activo) ==
    [nombre_real |-> S_nombre, versiones |-> 3, expiracion |-> expiracion,
     contacto |-> S_contacto, activo |-> activo]

\* expiration dates around the status boundaries: today - 1, today, today + 1,
\* today + 7, today + 8
Vencimientos ==
    {Strftime(<<2025, 1, 24>>)} \cup {Strftime(SumarDias(Hoy0, d)) : d \in {0, 1, 7, 8}}

\* records that do not parse: 30 February, free text, a number
NoFechas == {[tipo |-> "fecha", a |-> 2025, m |-> 2, d |-> 30],
             [tipo |-> "texto"], [tipo |-> "numero"]}

RegistrosCliente1 ==
    {Registro(e, TRUE) : e \in Vencimientos \cup NoFechas}
    \cup {Registro(Strftime(SumarDias(Hoy0, 8)), FALSE)}
    \cup {[nombre_real |-> S_nombre, versiones |-> 3,
            expiracion |-> Strftime(SumarDias(Hoy0, 8)), contacto |-> S_contacto]}
    \cup {[nombre_real |-> S_nombre, versiones |-> 3, contacto |-> S_contacto,
            activo |-> TRUE]}

RegistrosCliente2 == {Registro(Strftime(SumarDias(Hoy0, 8)), a) : a \in BOOLEAN}

ConfigsPanel ==
    {SinClientes}
    \cup {Asignar(SinClientes, S_cliente1, r) : r \in RegistrosCliente1}
    \cup {Asignar(SinClientes, S_cliente2, r) : r \in RegistrosCliente2}
    \cup {Asignar(Asignar(SinClientes, S_cliente1, r1), S_cliente2, r2) :
              r1 \in RegistrosCliente1, r2 \in RegistrosCliente2}

ArchivosPanel == {Ausente, Corrupto} \cup {Documento(c) : c \in ConfigsPanel}

Init ==
    /\ config_file \in ArchivosPanel
    /\ hoy = Hoy0
    /\ SinContrato
    /\ SinTestigos
    /\ SinTablero
    /\ entrada = FormularioInicial
    /\ salida_guardar = MensajeVacio
    /\ SinCarrera
    /\ csv_folder = SinArchivos
    /\ df \in Tablas
    /\ rango_fechas \in Rangos
    /\ res = SinResultado
    /\ fig_ingresos_mes = SinMeses
    /\ nombres = [ok |-> TRUE, nombres |-> SinClientes]
    /\ op = "inicio"

Next == ProcesarDatos

Spec == Init /\ [][Next]_vars

---------------------------------------------------------------------------
(* Inputs of the load specification: every operation that reads the       *)
(* registry, started on a missing, unparsable, empty or one-client document *)

TablasCarga == UNION {[1..n -> FilasPosibles] : n \in 0..1}

FormulariosCarga ==
    [n_clicks : {1}, cliente_id : {S_acme, S_cliente2}, nombre_real : {<<>>, S_nombre},
     versiones : {0}, expiracion : {Vacio, F_expira},
     contacto : {<<>>}, activo : {<<1>>}]

InitCarga ==
    /\ config_file \in ArchivosIniciales
    /\ hoy = Hoy0
    /\ SinContrato
    /\ SinTestigos
    /\ SinTablero
    /\ entrada = FormularioInicial
    /\ salida_guardar = MensajeVacio
    /\ SinCarrera
    /\ csv_folder = SinArchivos
    /\ df \in TablasCarga
    /\ rango_fechas = <<>>
    /\ res = SinResultado
    /\ fig_ingresos_mes = SinMeses
    /\ nombres = [ok |-> TRUE, nombres |-> SinClientes]
    /\ op = "inicio"

NextCarga ==
    \/ ProcesarDatos
    \/ ObtenerNombresReales
    \/ \E f \in FormulariosCarga : GuardarCliente(f)

SpecCarga == InitCarga /\ [][NextCarga]_vars

---------------------------------------------------------------------------
(* Inputs of the date-filter specification: ranges that end on, start on,  *)
(* straddle and miss the two days of the log, no range, and a registry     *)
(* without clients or with cliente1 active                                 *)

RangosFiltro ==
    {<<>>,
     <<(<<2025, 1, 31>>), (<<2025, 1, 31>>)>>,
     <<(<<2025, 2, 1>>), (<<2025, 2, 28>>)>>,
     <<(<<2025, 1, 30>>), (<<2025, 1, 30>>)>>,
     <<(<<2025, 2, 2>>), (<<2025, 2, 28>>)>>}

ArchivosFiltro ==
    {Documento(SinClientes),
     Documento(Asignar(SinClientes, S_cliente1,
                       Registro(Strftime(SumarDias(Hoy0, 8)), TRUE)))}

InitFiltro ==
    /\ config_file \in ArchivosFiltro
    /\ hoy = Hoy0
    /\ SinContrato
    /\ SinTestigos
    /\ SinTablero
    /\ entrada = FormularioInicial
    /\ salida_guardar = MensajeVacio
    /\ SinCarrera
    /\ csv_folder = SinArchivos
    /\ df \in Tablas
    /\ rango_fechas \in RangosFiltro
    /\ res = SinResultado
    /\ fig_ingresos_mes = SinMeses
    /\ nombres = [ok |-> TRUE, nombres |-> SinClientes]
    /\ op = "inicio"

NextFiltro == ProcesarDatos

SpecFiltro == InitFiltro /\ [][NextFiltro]_vars

---------------------------------------------------------------------------
(* Inputs of the duration specification: tables of at most MaxFilas rows   *)
(* whose durations are and are not whole seconds                           *)

Duraciones == {1500, 6000}

FilasDuracion ==
    [media : {M_cliente1_v1, S_cliente2, M_promo}, dur : Duraciones, monitor : {"P1"},
     pb : {<<2025, 2, 1, 0>>}]

TablasDuracion == UNION {[1..n -> FilasDuracion] : n \in 0..MaxFilas}

InitDuracion ==
    /\ config_file = Ausente
    /\ hoy = Hoy0
    /\ SinContrato
    /\ SinTestigos
    /\ SinTablero
    /\ entrada = FormularioInicial
    /\ salida_guardar = MensajeVacio
    /\ SinCarrera
    /\ csv_folder = SinArchivos
    /\ df \in TablasDuracion
    /\ rango_fechas = <<>>
    /\ res = SinResultado
    /\ fig_ingresos_mes = SinMeses
    /\ nombres = [ok |-> TRUE, nombres |-> SinClientes]
    /\ op = "inicio"

NextDuracion == ProcesarDatos

SpecDuracion == InitDuracion /\ [][NextDuracion]_vars

---------------------------------------------------------------------------
(* Inputs of the ingestion specification: at most MaxArchivos files in the *)
(* CSV folder, each readable or not, named with a date in the range, with  *)
(* a date before it, with digits that are no calendar day, or with no date *)

MaxArchivos == 3

FilaDe(media, pb) == [media |-> media, dur |-> 6000, monitor |-> "P1", pb |-> pb]

NombresCSV ==
    {[nombre |-> "yodeck_2025-02-01.csv", fecha |-> Strftime(<<2025, 2, 1>>),
      filas |-> <<FilaDe(M_cliente1_v1, <<2025, 2, 1, 0>>), FilaDe(M_promo, <<2025, 2, 1, 0>>)>>],
     [nombre |-> "yodeck_2025-01-31.csv", fecha |-> Strftime(<<2025, 1, 31>>),
      filas |-> <<FilaDe(S_cliente2, <<2025, 1, 31, 23>>)>>],
     [nombre |-> "yodeck_2025-02-30.csv", fecha |-> [tipo |-> "fecha", a |-> 2025, m |-> 2, d |-> 30],
      filas |-> <<FilaDe(M_cliente1_v1, <<2025, 1, 31, 23>>)>>],
     [nombre |-> "yodeck.csv", fecha |-> Vacio,
      filas |-> <<FilaDe(M_promo, <<2025, 2, 1, 0>>)>>]}

ArchivosCSV ==
    {[nombre |-> n.nombre, fecha |-> n.fecha, legible |-> l, filas |-> n.filas,
      mtime |-> <<2025, 2, 3>>] : n \in NombresCSV, l \in BOOLEAN}

\* the listings of a folder: no file name twice
Listados ==
    {a \in UNION {[1..n -> ArchivosCSV] : n \in 0..MaxArchivos} :
        \A i, j \in 1..Len(a) : i # j => a[i].nombre # a[j].nombre}

ListadoRaiz ==
    <<[nombre |-> "viejo.csv", fecha |-> Vacio, legible |-> TRUE,
       filas |-> <<FilaDe(S_cliente2, <<2025, 1, 31, 23>>)>>, mtime |-> <<2025, 1, 31>>]>>

Carpetas == [csv : Listados, raiz : {<<>>, ListadoRaiz}]

InitIngesta ==
    /\ config_file = Ausente
    /\ hoy = Hoy0
    /\ SinContrato
    /\ SinTestigos
    /\ SinTablero
    /\ entrada = FormularioInicial
    /\ salida_guardar = MensajeVacio
    /\ SinCarrera
    /\ csv_folder \in Carpetas
    /\ df = <<>>
    /\ rango_fechas = <<>>
    /\ res = SinResultado
    /\ fig_ingresos_mes = SinMeses
    /\ nombres = [ok |-> TRUE, nombres |-> SinClientes]
    /\ op = "inicio"

NextIngesta == \E r \in Rangos : CargarDatos(r)

SpecIngesta == InitIngesta /\ [][NextIngesta]_vars

---------------------------------------------------------------------------
(* Inputs of the contract specification *)

PreciosPosibles == {<<>>, <<0>>, <<1000>>}

DescuentosPosibles == {<<>>, <<0>>, <<15>>}

IvasPosibles == {<<>>, <<0>>, <<160>>}

TotalEscrito == <<7>>

InitContrato ==
    /\ config_file = Ausente
    /\ hoy = Hoy0
    /\ SinContrato
    /\ SinTestigos
    /\ SinTablero
    /\ entrada = FormularioInicial
    /\ salida_guardar = MensajeVacio
    /\ SinCarrera
    /\ SinPanel
    /\ op = "inicio"

NextContrato ==
    \/ \E v \in PreciosPosibles : CambiarEntrada("precio", v)
    \/ \E v \in DescuentosPosibles : CambiarEntrada("descuento", v)
    \/ \E v \in IvasPosibles : CambiarEntrada("iva", v)
    \/ \E pdf_ok \in BOOLEAN : ClickGenerar(pdf_ok)
    \/ EditarSinCallback("total", TotalEscrito)
    \/ \E b \in BOOLEAN : EditarSinCallback("obligatorios", b)

SpecContrato == InitContrato /\ [][NextContrato]_vars

---------------------------------------------------------------------------
(* Inputs of the witness-export specification: the folder 'videos' absent, *)
(* empty or holding some of four files, among them one whose name holds    *)
(* 'cliente1' inside 'cliente10' with an upper-case extension and one that *)
(* holds the id but is no video                                            *)

\* the counts asked for; 3 is the default of the signature
Cantidades == {1, 2, 3}

V_cliente1_mp4 ==
    <<"c", "l", "i", "e", "n", "t", "e", "1", "_", "s", "p", "o", "t", ".", "m", "p", "4">>

V_cliente10_MP4 ==
    <<"c", "l", "i", "e", "n", "t", "e", "1", "0", "_", "s", "p", "o", "t", ".", "M", "P", "4">>

V_cliente2_mov ==
    <<"c", "l", "i", "e", "n", "t", "e", "2", "_", "s", "p", "o", "t", ".", "m", "o", "v">>

V_cliente1_pdf ==
    <<"c", "l", "i", "e", "n", "t", "e", "1", "_", "n", "o", "t", "a", "s", ".", "p", "d", "f">>

ListadosVideo ==
    {<<>>,
     <<V_cliente1_mp4>>,
     <<V_cliente1_pdf>>,
     <<V_cliente1_mp4, V_cliente10_MP4>>,
     <<V_cliente2_mov, V_cliente1_pdf>>,
     <<V_cliente10_MP4, V_cliente2_mov, V_cliente1_mp4>>}

CarpetasVideo == {SinVideos} \cup {[existe |-> TRUE, archivos |-> a] : a \in ListadosVideo}

IdsTestigos == {S_cliente1, S_cliente2}

\* the ends of the range of int(random.random() * 1000)
AzarPosible == {0, 999}

InitTestigos ==
    /\ config_file = Ausente
    /\ hoy = Hoy0
    /\ SinContrato
    /\ SinTablero
    /\ entrada = FormularioInicial
    /\ salida_guardar = MensajeVacio
    /\ SinCarrera
    /\ SinPanel
    /\ videos \in CarpetasVideo
    /\ testigos = {}
    /\ exportacion = SinExportacion
    /\ op = "inicio"

\* one number is drawn for each source used: at most as many as asked for
NextTestigos ==
    \E id \in IdsTestigos, n \in Cantidades :
        \E azar \in [1..Min({n, Max({1, Len(buscar_videos_cliente(videos, id))})})
                        -> AzarPosible] :
            ExportarTestigos(id, n, azar)

SpecTestigos == InitTestigos /\ [][NextTestigos]_vars

---------------------------------------------------------------------------
(* Inputs of the dashboard specification: the page on 5 March 2025 with a  *)
(* CSV folder that is empty or holds one report of 1 February named with   *)
(* its date or with digits that are no calendar day; the pickers empty or  *)
(* set around February; an upload of a February log; saves of one form     *)

HoyTablero == <<2025, 3, 5>>

FechasInicio == {Vacio, Strftime(<<2025, 1, 31>>), Strftime(<<2025, 2, 1>>)}

FechasFin == {Vacio, Strftime(<<2025, 2, 28>>)}

CarpetasTablero ==
    {SinArchivos} \cup
    {[csv  |-> <<[nombre |-> n.nombre, fecha |-> n.fecha, legible |-> TRUE,
                  filas |-> <<FilaDe(M_cliente1_v1, <<2025, 2, 1, 0>>)>>,
                  mtime |-> <<2025, 2, 3>>]>>,
      raiz |-> <<>>] :
        n \in {m \in NombresCSV : m.nombre \in {"yodeck_2025-02-01.csv",
                                                "yodeck_2025-02-30.csv"}}}

Subidas ==
    {[nombre |-> "log.csv", csv |-> TRUE, legible |-> TRUE,
      filas |-> <<FilaDe(S_cliente2, <<2025, 2, 1, 0>>)>>],
     [nombre |-> "log.txt", csv |-> FALSE, legible |-> TRUE,
      filas |-> <<FilaDe(S_cliente2, <<2025, 2, 1, 0>>)>>]}

FormulariosTablero ==
    {f \in FormulariosCarga : f.nombre_real = S_nombre /\ f.expiracion = F_expira}

ArchivosTablero ==
    {Ausente, Documento(Asignar(SinClientes, S_cliente1, RegistroInicial))}

InitTablero ==
    /\ config_file \in ArchivosTablero
    /\ hoy = HoyTablero
    /\ SinContrato
    /\ SinTestigos
    /\ SinTablero
    /\ entrada = FormularioInicial
    /\ salida_guardar = MensajeVacio
    /\ SinCarrera
    /\ csv_folder \in CarpetasTablero
    /\ df = <<>>
    /\ rango_fechas = <<>>
    /\ res = SinResultado
    /\ fig_ingresos_mes = SinMeses
    /\ nombres = [ok |-> TRUE, nombres |-> SinClientes]
    /\ op = "inicio"

NextTablero ==
    \/ ActualizarPendiente
    \/ \E i \in FechasInicio, f \in FechasFin : ClickFiltrar(i, f)
    \/ \E s \in Subidas : SubirArchivo(s)
    \/ \E f \in FormulariosTablero : GuardarCliente(f)

SpecTablero == InitTablero /\ [][NextTablero]_vars

---------------------------------------------------------------------------
(* Claims about the registry *)

\* C1: a save-client call whose id does not start with 'cliente' leaves the
\* registry document exactly as it was, whatever the document and the other
\* form fields hold, and when an id was typed (e.g. "acme") it answers with
\* the error message
C1_RechazoSinEscritura ==
    [][LET id == entrada'.cliente_id
       IN  ~StartsWith(id, S_cliente) =>
               /\ config_file' = config_file
               /\ (entrada'.n_clicks # 0 /\ id # <<>>) =>
                      salida_guardar' = MensajeErrorId]_vars

\* C1 witness: "acme" was submitted against a registry holding cliente1; the
\* error is shown and the record is still the stored one
C1_Testigo ==
    /\ entrada.cliente_id = S_acme
    /\ salida_guardar = MensajeErrorId
    /\ config_file = Documento(Asignar(SinClientes, S_cliente1, RegistroInicial))

\* C2: every key of the registry has the form 'cliente' followed by one or
\* more digits, after any sequence of save-client calls
C2_ClavesClienteN ==
    \A k \in DOMAIN cargar_configuracion(config_file).config : EsClienteN(k)

\* C3: a save merges over the existing record: for an id already in the
\* registry a form field left empty keeps the stored value, and only for a
\* new id do the empty fields take the defaults
C3_FusionSobreExistente ==
    [][LET f     == entrada'
           viejo == cargar_configuracion(config_file).config
           nuevo == cargar_configuracion(config_file').config
           id    == f.cliente_id
       IN  (f.n_clicks # 0 /\ id # <<>> /\ StartsWith(id, S_cliente)) =>
               /\ id \in DOMAIN nuevo
               /\ f.nombre_real # <<>> => nuevo[id].nombre_real = f.nombre_real
               /\ f.versiones # 0 => nuevo[id].versiones = f.versiones
               /\ f.expiracion # Vacio => nuevo[id].expiracion = f.expiracion
               /\ f.contacto # <<>> => nuevo[id].contacto = f.contacto
               /\ id \in DOMAIN viejo =>
                      /\ f.nombre_real = <<>> => nuevo[id].nombre_real = viejo[id].nombre_real
                      /\ f.versiones = 0 => nuevo[id].versiones = viejo[id].versiones
                      /\ f.expiracion = Vacio => nuevo[id].expiracion = viejo[id].expiracion
                      /\ f.contacto = <<>> => nuevo[id].contacto = viejo[id].contacto
               /\ id \notin DOMAIN viejo =>
                      /\ f.nombre_real = <<>> => nuevo[id].nombre_real = id
                      /\ f.versiones = 0 => nuevo[id].versiones = 1
                      /\ f.expiracion = Vacio =>
                             nuevo[id].expiracion = Strftime(SumarDias(hoy, 30))
                      /\ f.contacto = <<>> => nuevo[id].contacto = <<>>]_vars

\* C4: when both concurrent requests have finished and the document parses,
\* it is exactly the mapping the last writer built from its own earlier read
\* plus its record (the last writer wins), so the other request's record is
\* in it only if the last writer had read it
C4_UltimoEscritorGana ==
    ((\A p \in Procs : pc[p] = "hecho") /\ escritor # 0 /\ config_file.estado = "json") =>
        LET w == escritor
        IN  /\ config_file.datos =
                  Asignar(leido[w], peticion[w].cliente_id,
                          RegistroCliente(peticion[w], hoy))
            /\ \A o \in Procs \ {w} :
                  peticion[o].cliente_id \in DOMAIN config_file.datos
                      => peticion[o].cliente_id \in DOMAIN leido[w]

\* C4 witness: both requests finished and the document holds only one of the
\* two new records: the other update is lost
C4_ActualizacionPerdida ==
    /\ \A p \in Procs : pc[p] = "hecho"
    /\ escritor # 0
    /\ config_file.estado = "json"
    /\ Cardinality({S_cliente1, S_cliente2} \cap DOMAIN config_file.datos) = 1

---------------------------------------------------------------------------
(* Claims about loading the registry and about the aggregation pass *)

\* the last pass returned its tuple (it did not raise)
Completo == "estado_clientes" \in DOMAIN res

RatIgual(x, y) == x.n * y.d = y.n * x.d

\* C5: loading never raises: an operation started on a missing or unparsable
\* document runs to its end and does what it does on the empty registry: the
\* aggregation returns the same tuple, the display names are the same, and a
\* save answers the same and leaves the file it would leave from {} (the
\* untouched file when it rejects)
C5_CargaNuncaFalla ==
    [][config_file.estado # "json" =>
          LET vacio == Documento(SinClientes)
              g     == guardar_cliente(entrada', vacio, hoy)
          IN  /\ op' = "procesar" =>
                    /\ ~res'.error
                    /\ res' = procesar_datos(df, rango_fechas, vacio, hoy)
              /\ op' = "nombres" =>
                    /\ nombres'.ok
                    /\ nombres' = obtener_nombres_reales(vacio)
              /\ op' = "guardar" =>
                    /\ config_file' = IF g.archivo = vacio THEN config_file ELSE g.archivo
                    /\ salida_guardar' = IF g.salida = NoUpdate THEN salida_guardar
                                         ELSE g.salida]_vars

\* C5 witness: a pass over a non-empty table ran on the unparsable document
\* and returned a status table
C5_Testigo ==
    /\ op = "procesar"
    /\ config_file = Corrupto
    /\ Completo
    /\ Len(res.estado_clientes) > 0

\* C6: for every status row whose expiration parses, with d the expiration
\* minus today in days: days-remaining is d, and the status is Activo exactly
\* when d > 7, Por vencer exactly when 0 < d <= 7, Vencido exactly when d <= 0
C6_EstadoSegunDias ==
    Completo =>
        \A i \in 1..Len(res.estado_clientes) :
            LET fila == res.estado_clientes[i]
                p    == Strptime(fila.Expiracion)
                d    == Ordinal(p.fecha) - Ordinal(hoy)
            IN  p.ok =>
                    /\ fila.Dias_Restantes = d
                    /\ fila.Estado = "Activo" <=> d > 7
                    /\ fila.Estado = "Por vencer" <=> (0 < d /\ d <= 7)
                    /\ fila.Estado = "Vencido" <=> d <= 0

\* C6 witness: one status table with a client expiring in 7 days shown as
\* Por vencer and a client expiring in 8 days shown as Activo
C6_Testigo ==
    /\ Completo
    /\ \E i, j \in 1..Len(res.estado_clientes) :
          /\ res.estado_clientes[i].Dias_Restantes = 7
          /\ res.estado_clientes[i].Estado = "Por vencer"
          /\ res.estado_clientes[j].Dias_Restantes = 8
          /\ res.estado_clientes[j].Estado = "Activo"

\* the client ids observed in the date window of the table
Observados ==
    {ExtraerCliente(df[i].media) :
        i \in {j \in 1..Len(df) : rango_fechas = <<>> \/ EnRango(df[j], rango_fechas)}}
    \ {NaN}

\* the registry as the pass reads it
ConfigActual == cargar_configuracion(config_file).config

\* C7: a record whose expiration does not parse (malformed text, not a
\* string, or no expiracion key) never makes the pass fail: the pass returns,
\* and the row of every observed client with such a record has the invalid
\* date status and 0 days remaining
C7_FechaInvalidaNoFalla ==
    op = "procesar" =>
        /\ ~res.error
        /\ \A c \in Observados \cap DOMAIN ConfigActual :
              LET info == ConfigActual[c]
              IN  ("expiracion" \notin DOMAIN info \/ ~Strptime(info.expiracion).ok) =>
                      \E i \in 1..Len(res.estado_clientes) :
                          /\ res.estado_clientes[i].Cliente = c
                          /\ res.estado_clientes[i].Estado = "Fecha invalida"
                          /\ res.estado_clientes[i].Dias_Restantes = 0

\* C8: the status table has exactly one row for each client id observed in
\* the date window, no row for a client id that is not observed (configured
\* or not), and an observed client absent from the registry has the defaults:
\* name = id, expiration = today + 30 days, empty contact, 30 days, Activo
C8_UnaFilaPorObservado ==
    Completo =>
        LET filas == res.estado_clientes
        IN  /\ \A c \in Observados :
                  Cardinality({i \in 1..Len(filas) : filas[i].Cliente = c}) = 1
            /\ \A i \in 1..Len(filas) :
                  filas[i].Cliente # NaN => filas[i].Cliente \in Observados
            /\ \A i \in 1..Len(filas) :
                  (filas[i].Cliente \in Observados \ DOMAIN ConfigActual) =>
                      /\ filas[i].Nombre_Real = filas[i].Cliente
                      /\ filas[i].Expiracion = Strftime(SumarDias(hoy, 30))
                      /\ filas[i].Contacto = <<>>
                      /\ filas[i].Dias_Restantes = 30
                      /\ filas[i].Estado = "Activo"

\* C8 witness: under a date filter, cliente2 is observed twice and not
\* configured, cliente1 is configured and not observed; the table is the one
\* default row of cliente2
C8_Testigo ==
    /\ Completo
    /\ rango_fechas # <<>>
    /\ Len(df) = 3
    /\ S_cliente1 \in DOMAIN ConfigActual
    /\ S_cliente2 \notin DOMAIN ConfigActual
    /\ Observados = {S_cliente2}
    /\ \A i \in 2..3 : df[i].media = S_cliente2 /\ EnRango(df[i], rango_fechas)
    /\ Len(res.estado_clientes) = 1
    /\ res.estado_clientes[1].Cliente = S_cliente2
    /\ res.estado_clientes[1].Dias_Restantes = 30

\* the clients flagged active: configured, with activo true or absent
ActivosReg ==
    {k \in DOMAIN ConfigActual :
        "activo" \notin DOMAIN ConfigActual[k] \/ ConfigActual[k].activo = TRUE}

\* the month buckets of the processed table
MesesTabla == {res.df[i].Mes : i \in 1..Len(res.df)}

\* the number of distinct active clients present in month m
ActivosEnMes(m) ==
    Cardinality({res.df[i].Cliente : i \in {j \in 1..Len(res.df) : res.df[j].Mes = m}}
                \cap ActivosReg)

\* C9: with at least one active client in the registry, the revenue estimate
\* is (the mean over the month buckets of the table of the number of distinct
\* active clients present in the bucket) x the price x (the number of month
\* buckets of the table); the mean is the fraction sum / count.  The same
\* holds with both the mean and the bucket count taken over the buckets in
\* which an active client is present, which is how the code computes it
C9_IngresosPromedio ==
    (Completo /\ ActivosReg # {}) =>
        LET n    == Cardinality(MesesTabla)
            suma == SumaDe([m \in MesesTabla |-> ActivosEnMes(m)], MesesTabla)
            na   == Cardinality({m \in MesesTabla : ActivosEnMes(m) > 0})
        IN  /\ IF n = 0 THEN res.ingresos_totales.n = 0
               ELSE RatIgual(res.ingresos_totales,
                             Fraccion(suma * PRECIO_POR_CLIENTE * n, n))
            /\ IF na = 0 THEN res.ingresos_totales.n = 0
               ELSE RatIgual(res.ingresos_totales,
                             Fraccion(suma * PRECIO_POR_CLIENTE * na, na))

\* C9 witness: cliente1 active and present in January and February,
\* cliente2 not configured and present in January only: two month buckets,
\* mean 1, revenue 1 x price x 2
C9_Testigo ==
    /\ Completo
    /\ rango_fechas = <<>>
    /\ ActivosReg = {S_cliente1}
    /\ S_cliente2 \notin DOMAIN ConfigActual
    /\ {<<df[i].media, df[i].pb[2]>> : i \in 1..Len(df)}
          = {<<M_cliente1_v1, 1>>, <<M_cliente1_v1, 2>>, <<S_cliente2, 1>>}
    /\ Cardinality(MesesTabla) = 2
    /\ \A m \in MesesTabla : ActivosEnMes(m) = 1
    /\ RatIgual(res.ingresos_totales, Fraccion(1 * PRECIO_POR_CLIENTE * 2, 1))

\* the table without the rows of clients that are not flagged active
\* (unconfigured, flagged inactive, or with no client id)
SoloActivos ==
    LET DeActivo(fila) == ExtraerCliente(fila.media) \in ActivosReg
    IN  SelectSeq(df, DeActivo)

\* C10: only active clients contribute to the revenue estimate: the estimate
\* for the table equals the estimate for the same table without the rows of
\* unconfigured, inactive and unattributed clients.  Two tables that differ
\* only in such rows have the same remaining rows, hence the same estimate
C10_SoloActivosCuentan ==
    Completo =>
        LET r == procesar_datos(SoloActivos, rango_fechas, config_file, hoy)
        IN  /\ ~r.error
            /\ RatIgual(res.ingresos_totales, r.ingresos_totales)

\* C10 witness: the table holds a row of the active cliente1, a row of the
\* inactive cliente2 and a row with no client id; the estimate is that of
\* cliente1 alone
C10_Testigo ==
    /\ Completo
    /\ rango_fechas = <<>>
    /\ ActivosReg = {S_cliente1}
    /\ S_cliente2 \in DOMAIN ConfigActual
    /\ {df[i].media : i \in 1..Len(df)} = {M_cliente1_v1, S_cliente2, M_promo}
    /\ Len(SoloActivos) = 1
    /\ RatIgual(res.ingresos_totales, Fraccion(PRECIO_POR_CLIENTE, 1))

\* C11: when no client of the registry is flagged active, after every pass
\* the revenue estimate is zero, the per-month revenue table of the pipeline
\* is empty and the monthly revenue series drawn by the dashboard update is
\* empty
C11_SinActivosSinIngresos ==
    (op = "procesar" /\ Completo /\ ActivosReg = {}) =>
        /\ res.ingresos_totales.n = 0
        /\ res.clientes_mes = SinMeses
        /\ fig_ingresos_mes = SinMeses

RatMenor(x, y) == x.n * y.d < y.n * x.d

\* the factors the price is multiplied by
Factores == {2, 3}

\* C12: with the table and the registry of the pass held fixed, the revenue
\* estimate at k times the price is k times the estimate of the pass, and it
\* is strictly higher for k > 1 when a row of an active client is in the
\* processed table
C12_ProporcionalAlPrecio ==
    Completo =>
        \A k \in Factores :
            LET con_k == IngresosCon(res.clientes_mes, k * PRECIO_POR_CLIENTE)
                base  == res.ingresos_totales
            IN  /\ RatIgual(base, IngresosCon(res.clientes_mes, PRECIO_POR_CLIENTE))
                /\ RatIgual(con_k, Fraccion(k * base.n, base.d))
                /\ (\E i \in 1..Len(res.df) : res.df[i].Cliente \in ActivosReg)
                      => RatMenor(base, con_k)

\* C12 witness: a pass with active clients in two months, whose estimate is
\* positive and doubles with the price
C12_Testigo ==
    /\ Completo
    /\ \E i \in 1..Len(res.df) : res.df[i].Cliente \in ActivosReg
    /\ Cardinality(DOMAIN res.clientes_mes) = 2
    /\ res.ingresos_totales.n > 0
    /\ RatIgual(IngresosCon(res.clientes_mes, 2 * PRECIO_POR_CLIENTE),
                Fraccion(2 * res.ingresos_totales.n, res.ingresos_totales.d))

\* calendar dates <<a, m, d>> compared field by field
FechaMenorIgual(x, y) ==
    \/ x[1] < y[1]
    \/ x[1] = y[1] /\ x[2] < y[2]
    \/ x[1] = y[1] /\ x[2] = y[2] /\ x[3] <= y[3]

\* start 00:00 <= t < (end + 1 day) 00:00: the calendar day of t is neither
\* before the start day nor after the end day
EnVentana(fila) ==
    LET dia == <<fila.pb[1], fila.pb[2], fila.pb[3]>>
    IN  /\ FechaMenorIgual(rango_fechas[1], dia)
        /\ FechaMenorIgual(dia, rango_fechas[2])

\* C13: with a date range the pass keeps exactly the rows whose playback
\* timestamp t satisfies start 00:00 <= t < (end + 1 day) 00:00 (any hour of
\* the end day is in, the day after the end day and the days before the
\* start day are out), and every aggregate it returns is the one computed
\* from the kept rows alone
C13_FiltroDeFechas ==
    (op = "procesar" /\ Completo /\ rango_fechas # <<>>) =>
        LET kept == SelectSeq(df, EnVentana)
        IN  /\ Len(res.df) = Len(kept)
            /\ \A i \in 1..Len(kept) :
                  /\ res.df[i].media = kept[i].media
                  /\ res.df[i].pb = kept[i].pb
            /\ res = procesar_datos(kept, <<>>, config_file, hoy)

\* C13 witness: the range ends on 31 January; the row of 31 January 23:00 is
\* kept and the row of 1 February 00:00 is not
C13_Testigo ==
    /\ op = "procesar"
    /\ Completo
    /\ rango_fechas # <<>>
    /\ rango_fechas[2] = <<2025, 1, 31>>
    /\ \E i \in 1..Len(df) : df[i].pb = <<2025, 1, 31, 23>>
    /\ \E i \in 1..Len(df) : df[i].pb = <<2025, 2, 1, 0>>
    /\ Len(res.df) >= 1
    /\ \A i \in 1..Len(res.df) : res.df[i].pb = <<2025, 1, 31, 23>>

\* C14: when the table has no rows, as given or after the date filter, the
\* pass returns without error and every aggregate is empty or zero
C14_TablaVaciaSinError ==
    (op = "procesar"
        /\ (df = <<>> \/ (rango_fechas # <<>> /\ SelectSeq(df, EnVentana) = <<>>))) =>
        /\ ~res.error
        /\ Completo
        /\ res.df = <<>>
        /\ res.clientes_unicos = 0
        /\ res.ingresos_totales.n = 0
        /\ DOMAIN res.ocupacion = {}
        /\ DOMAIN res.clientes_por_mes = {}
        /\ DOMAIN res.clientes_nuevos_mes = {}
        /\ DOMAIN res.clientes_mes = {}
        /\ DOMAIN res.campanas = {}
        /\ DOMAIN res.frecuencia_clientes = {}
        /\ DOMAIN res.top_clientes_reproducciones = {}
        /\ DOMAIN res.evolucion_diaria = {}
        /\ DOMAIN res.versiones_por_cliente = {}
        /\ DOMAIN res.tiempo_por_cliente = {}
        /\ res.estado_clientes = <<>>

\* C14 witness: a table with rows, none of them in the range, was processed
\* with an active client in the registry
C14_Testigo ==
    /\ op = "procesar"
    /\ Len(df) > 0
    /\ rango_fechas # <<>>
    /\ SelectSeq(df, EnVentana) = <<>>
    /\ ActivosReg # {}
    /\ Completo
    /\ res.df = <<>>

\* C15: a pass that runs right after a pass on the same unfiltered table,
\* with the same registry and the same date, returns what the first one
\* returned, although the first one added the derived columns to the table
C15_Idempotente ==
    [][(op = "procesar" /\ op' = "procesar" /\ rango_fechas = <<>>
           /\ config_file' = config_file /\ hoy' = hoy)
          => res' = res]_vars

\* C15 witness: a pass has run on an unfiltered table with rows, the table
\* now carries the derived columns, and it is the table the next pass is run
\* on and returns
C15_Testigo ==
    /\ op = "procesar"
    /\ rango_fechas = <<>>
    /\ Len(df) > 0
    /\ \A i \in 1..Len(df) : "Cliente" \in DOMAIN df[i]
    /\ Completo
    /\ res.df = df
    /\ res = procesar_datos(df, rango_fechas, config_file, hoy)
    /\ Len(res.estado_clientes) > 0

\* the media name contains 'cliente' followed by a digit
TieneCliente(media) ==
    \E i \in 1..Len(media) :
        /\ i + Len(S_cliente) <= Len(media)
        /\ SubSeq(media, i, i + Len(S_cliente) - 1) = S_cliente
        /\ media[i + Len(S_cliente)] \in Digitos

\* the client ids of the processed table, the null id left out
ClientesTabla == {res.df[i].Cliente : i \in 1..Len(res.df)} \ {NaN}

\* the rows whose media name has no 'cliente' + digits have the null client
\* id, and the null id has no entry in the grouped per-client aggregates
C16_NuloFueraDeGrupos ==
    /\ \A i \in 1..Len(res.df) : ~TieneCliente(res.df[i].media) <=> res.df[i].Cliente = NaN
    /\ res.clientes_unicos = Cardinality(ClientesTabla)
    /\ DOMAIN res.campanas = ClientesTabla
    /\ DOMAIN res.frecuencia_clientes = ClientesTabla
    /\ DOMAIN res.top_clientes_reproducciones = ClientesTabla
    /\ DOMAIN res.versiones_por_cliente = ClientesTabla
    /\ DOMAIN res.tiempo_por_cliente = ClientesTabla
    /\ SumaDe(res.clientes_nuevos_mes, DOMAIN res.clientes_nuevos_mes)
          = Cardinality(ClientesTabla)
    /\ \A m \in DOMAIN res.clientes_por_mes :
          res.clientes_por_mes[m]
              = Cardinality({c \in ClientesTabla :
                                \E i \in 1..Len(res.df) :
                                    res.df[i].Cliente = c /\ res.df[i].Mes = m})

\* C16: rows whose media name has no 'cliente' followed by digits get the
\* null client id, and the null client has no entry in any per-client
\* aggregate: not in the distinct-client count, the per-client play counts,
\* version counts and durations, the new-clients and total-clients per month,
\* nor in the client-status table
C16_SinEntradaParaNulo ==
    Completo =>
        /\ C16_NuloFueraDeGrupos
        /\ \A i \in 1..Len(res.estado_clientes) : res.estado_clientes[i].Cliente # NaN

\* the rows of the table handed to the pass that are in the date window
FilasEnVentana ==
    IF rango_fechas = <<>> THEN df ELSE SelectSeq(df, EnVentana)

\* C17: rows with the null client id are passed through: the processed table
\* has one row for each input row of the date window, in order, so its
\* length (the total play count) counts them; the daily play counts add up
\* to that number of rows, and the occupancy of each monitor is the sum of
\* the durations (milliseconds) of all its rows in the window over 1000 * 3600
C17_NulosPasan ==
    Completo =>
        LET ent == FilasEnVentana
        IN  /\ Len(res.df) = Len(ent)
            /\ \A i \in 1..Len(ent) :
                  /\ res.df[i].media = ent[i].media
                  /\ res.df[i].pb = ent[i].pb
            /\ SumaDe(res.evolucion_diaria, DOMAIN res.evolucion_diaria) = Len(ent)
            /\ DOMAIN res.ocupacion = {ent[i].monitor : i \in 1..Len(ent)}
            /\ \A mon \in DOMAIN res.ocupacion :
                  LET idx == {i \in 1..Len(ent) : ent[i].monitor = mon}
                  IN  /\ res.ocupacion[mon].n = SumaDe([i \in idx |-> ent[i].dur], idx)
                      /\ res.ocupacion[mon].d = 1000 * 3600

\* C17 witness: a pass over a table of three rows, two of them without a
\* client id; three rows processed, three plays counted over the days
C17_Testigo ==
    /\ Completo
    /\ rango_fechas = <<>>
    /\ Len(df) = 3
    /\ Cardinality({i \in 1..Len(df) : ExtraerCliente(df[i].media) = NaN}) = 2
    /\ Len(res.df) = 3
    /\ SumaDe(res.evolucion_diaria, DOMAIN res.evolucion_diaria) = 3
    /\ Cardinality(DOMAIN res.evolucion_diaria) = 2

\* the file passes the filename-date pre-filter: no range, no date in the
\* name, or a date of the name that lies in the range
PasaPrefiltro(archivo) ==
    \/ rango_fechas = <<>>
    \/ archivo.fecha = Vacio
    \/ /\ Strptime(archivo.fecha).ok
       /\ FechaMenorIgual(rango_fechas[1], Strptime(archivo.fecha).fecha)
       /\ FechaMenorIgual(Strptime(archivo.fecha).fecha, rango_fechas[2])

\* the rows of the listed files, each with the name and the report date of
\* its file
RECURSIVE FilasEtiquetadas(_)
FilasEtiquetadas(archivos) ==
    IF archivos = <<>> THEN <<>>
    ELSE LET a == Head(archivos)
         IN  [i \in 1..Len(a.filas) |->
                 [media |-> a.filas[i].media, dur |-> a.filas[i].dur,
                  monitor |-> a.filas[i].monitor, pb |-> a.filas[i].pb,
                  Archivo |-> a.nombre,
                  Fecha_Reporte |-> IF a.fecha = Vacio
                                    THEN [tipo |-> "fecha", a |-> a.mtime[1],
                                          m |-> a.mtime[2], d |-> a.mtime[3]]
                                    ELSE a.fecha]]
             \o FilasEtiquetadas(Tail(archivos))

\* C18: a file that cannot be read is skipped alone: the unified table is
\* made of exactly the rows of the other discovered files that pass the
\* filename-date pre-filter, in the order of the files, each row with the
\* name of its file and its report date
C18_ArchivoMaloSeOmite ==
    op = "cargar" =>
        LET Bueno(a) == a.legible /\ PasaPrefiltro(a)
        IN  df = FilasEtiquetadas(SelectSeq(Descubiertos(csv_folder), Bueno))

\* C18 witness: three files were discovered, the second one unreadable; the
\* table has the rows of the first and the third
C18_Testigo ==
    /\ op = "cargar"
    /\ Len(csv_folder.csv) = 3
    /\ csv_folder.csv[1].legible /\ PasaPrefiltro(csv_folder.csv[1])
    /\ ~csv_folder.csv[2].legible /\ PasaPrefiltro(csv_folder.csv[2])
    /\ csv_folder.csv[3].legible /\ PasaPrefiltro(csv_folder.csv[3])
    /\ {df[i].Archivo : i \in 1..Len(df)} = {csv_folder.csv[1].nombre, csv_folder.csv[3].nombre}
    /\ Len(df) = Len(csv_folder.csv[1].filas) + Len(csv_folder.csv[3].filas)

\* the pricing inputs of the contract form
EntradasDePrecio == {"precio", "descuento", "iva"}

\* base - base * discount / 100 + tax in hundredths, for inputs that hold a
\* number
FormulaTotal(base, descuento, impuesto) ==
    100 * base[1] - base[1] * descuento[1] + 100 * impuesto[1]

\* C19: after any change of a pricing input (base price, discount, tax), even
\* before the first click on the generate button, the Total field holds
\* base - base x discount / 100 + tax of the values now in the form
C19_TotalRecalculado ==
    (op \in EntradasDePrecio
        /\ form_contrato.precio # <<>>
        /\ form_contrato.descuento # <<>>
        /\ form_contrato.iva # <<>>) =>
        form_contrato.total
            = <<FormulaTotal(form_contrato.precio, form_contrato.descuento,
                             form_contrato.iva)>>

\* C20: the total printed in a generated contract satisfies total = base -
\* base x discount / 100 + tax over the base price, the discount and the tax
\* printed in the same contract, an empty pricing input being printed as 0
C20_TotalDelContrato ==
    pdf_contrato # SinPdf =>
        100 * pdf_contrato.total
            = 100 * pdf_contrato.precio_base
              - pdf_contrato.precio_base * pdf_contrato.descuento
              + 100 * pdf_contrato.iva

---------------------------------------------------------------------------
(* New clients per month *)

\* the month of the earliest playback of client c in the processed table
MesDeEstreno(c) ==
    LET idx == {i \in 1..Len(res.df) : res.df[i].Cliente = c}
        t0  == Min({Instante(res.df[i].pb) : i \in idx})
    IN  CHOOSE m \in {res.df[i].Mes : i \in {j \in idx : Instante(res.df[j].pb) = t0}} : TRUE

\* the clients whose earliest playback falls in month m
EstrenadosEn(m) == {c \in ClientesTabla : MesDeEstreno(c) = m}

\* C21: the new-clients-per-month table counts each observed client exactly
\* once, in the month of its earliest playback: a month has an entry exactly
\* when some client starts in it, and the entry is the number of clients
\* that start in it; the entries add up to the number of distinct clients;
\* and no month has more new clients than it has clients in total
C21_ClientesNuevosUnaVez ==
    Completo =>
        LET nuevos == res.clientes_nuevos_mes
        IN  /\ DOMAIN nuevos = {m \in MesesTabla : EstrenadosEn(m) # {}}
            /\ \A m \in DOMAIN nuevos : nuevos[m] = Cardinality(EstrenadosEn(m))
            /\ SumaDe(nuevos, DOMAIN nuevos) = res.clientes_unicos
            /\ \A m \in DOMAIN nuevos :
                  /\ m \in DOMAIN res.clientes_por_mes
                  /\ nuevos[m] <= res.clientes_por_mes[m]

\* C21 witness: cliente1 plays in January and in February and cliente2 only
\* in February; each month has one new client and February has two clients
C21_Testigo ==
    /\ Completo
    /\ rango_fechas = <<>>
    /\ ClientesTabla = {S_cliente1, S_cliente2}
    /\ {res.df[i].Mes : i \in {j \in 1..Len(res.df) : res.df[j].Cliente = S_cliente1}}
           = {<<2025, 1>>, <<2025, 2>>}
    /\ res.clientes_nuevos_mes = (<<2025, 1>> :> 1) @@ (<<2025, 2>> :> 1)
    /\ res.clientes_por_mes[<<2025, 2>>] = 2
    /\ res.clientes_unicos = 2

---------------------------------------------------------------------------
(* Witness export *)

\* the candidate sources of a client in a folder: the positions of the files
\* whose name holds the client id and ends with a video or text extension
Candidatos(carpeta, id) ==
    {i \in 1..Len(carpeta.archivos) :
        /\ carpeta.existe
        /\ Contiene(carpeta.archivos[i], id)
        /\ \E e \in Extensiones : EndsWith(Lower(carpeta.archivos[i]), e)}

\* C22: an export for a client with count n >= 1 writes the example source
\* exactly when the folder held no candidate for the client, and then adds
\* that one file and nothing else; it returns min(n, number of candidates)
\* paths, the candidates counted after the example was written, hence at
\* least one and at most n; no export removes a file, and an export that
\* follows an export for the same client writes no example
C22_ExportaMinimo ==
    [][op' = "testigos" =>
          LET id    == exportacion'.cliente_id
              n     == exportacion'.cantidad
              dados == Len(exportacion'.testigos_exportados)
          IN  /\ n >= 1
              /\ exportacion'.ejemplo_creado <=> Candidatos(videos, id) = {}
              /\ videos'.archivos =
                     IF Candidatos(videos, id) = {}
                     THEN Append(videos.archivos, id \o S_ejemplo)
                     ELSE videos.archivos
              /\ dados = Min({n, Cardinality(Candidatos(videos', id))})
              /\ dados >= 1 /\ dados <= n
              /\ \A i \in 1..dados : exportacion'.testigos_exportados[i] \in testigos'
              /\ (op = "testigos" /\ exportacion.cliente_id = id) =>
                     /\ ~exportacion'.ejemplo_creado
                     /\ videos' = videos]_vars

\* C22 witness: the second of two exports for cliente1 with count 3 from a
\* folder that did not exist: the folder holds the one example source the
\* first export wrote, and the second returned one path and wrote none
C22_Testigo ==
    /\ op = "testigos"
    /\ exportacion.llamadas = 2
    /\ exportacion.cliente_id = S_cliente1
    /\ exportacion.cantidad = 3
    /\ ~exportacion.ejemplo_creado
    /\ videos = [existe |-> TRUE, archivos |-> <<S_cliente1 \o S_ejemplo>>]
    /\ Len(exportacion.testigos_exportados) = 1
    /\ Cardinality(testigos) = 2

---------------------------------------------------------------------------
(* Durations *)

RECURSIVE MCD(_, _)
\* the greatest common divisor of two naturals
MCD(a, b) == IF b = 0 THEN a ELSE MCD(b, a % b)

\* a fraction in lowest terms
Reducida(f) ==
    LET g == MCD(f.n, f.d)
    IN  IF g = 0 THEN f ELSE Fraccion(f.n \div g, f.d \div g)

\* the fraction f / k in lowest terms
Entre(f, k) == Reducida(Fraccion(Reducida(f).n, Reducida(f).d * k))

\* C23: for every row with Media Duration D milliseconds the derived
\* duration in seconds is D / 1000; each client's total seconds is the sum
\* of D / 1000 over the client's rows, its total minutes is the total
\* seconds / 60 and its total hours the total seconds / 3600
C23_SegundosMinutosHoras ==
    Completo =>
        /\ \A i \in 1..Len(res.df) :
              Reducida(res.df[i].segundos) = Reducida(Fraccion(res.df[i].dur, 1000))
        /\ \A c \in ClientesTabla :
              LET idx == {i \in 1..Len(res.df) : res.df[i].Cliente = c}
                  t   == res.tiempo_por_cliente[c]
              IN  /\ Reducida(t.Total_Segundos) =
                         Reducida(Fraccion(SumaDe([i \in idx |-> res.df[i].dur], idx), 1000))
                  /\ Reducida(t.Total_Minutos) = Entre(t.Total_Segundos, 60)
                  /\ Reducida(t.Total_Horas) = Entre(t.Total_Segundos, 3600)

\* C23 witness: cliente1 has a row of 1500 ms and a row of 6000 ms: 7.5
\* seconds, an eighth of a minute, 1 / 480 of an hour
C23_Testigo ==
    /\ Completo
    /\ Len(res.df) = 2
    /\ {res.df[i].Cliente : i \in 1..2} = {S_cliente1}
    /\ {res.df[i].dur : i \in 1..2} = {1500, 6000}
    /\ Reducida(res.tiempo_por_cliente[S_cliente1].Total_Segundos) = Fraccion(15, 2)
    /\ Reducida(res.tiempo_por_cliente[S_cliente1].Total_Minutos) = Fraccion(1, 8)
    /\ Reducida(res.tiempo_por_cliente[S_cliente1].Total_Horas) = Fraccion(1, 480)

---------------------------------------------------------------------------
(* The dashboard update *)

\* an update of the dashboard ran last
Actualizado == op \in {"stored-config", "btn-filtrar-fechas", "upload-data"}

\* the columns of the log in a row
Registrado(fila) ==
    [media |-> fila.media, dur |-> fila.dur, monitor |-> fila.monitor, pb |-> fila.pb]

\* the rows of all the listed files that can be read, in the order of the
\* files
RECURSIVE FilasLegibles(_)
FilasLegibles(archivos) ==
    IF archivos = <<>> THEN <<>>
    ELSE (IF Head(archivos).legible THEN Head(archivos).filas ELSE <<>>)
             \o FilasLegibles(Tail(archivos))

\* C24: under a date range the rows an update aggregates are the rows of
\* all the discovered files whose playback timestamp lies in the range,
\* whatever date the names of the files carry
C24_PrefiltroNoCambia ==
    (Actualizado /\ ~res.error /\ rango_fechas # <<>>) =>
        LET Dentro(fila) == EnRango(fila, rango_fechas)
            esperadas == SelectSeq(FilasLegibles(Descubiertos(csv_folder)), Dentro)
        IN  [i \in 1..Len(res.df) |-> Registrado(res.df[i])] = esperadas

\* the range held in the stored filter state: none unless both dates are set
RangoAlmacenado ==
    IF stored_fechas.inicio # Vacio /\ stored_fechas.fin # Vacio
    THEN [rango   |-> <<Strptime(stored_fechas.inicio).fecha,
                        Strptime(stored_fechas.fin).fecha>>,
          mensaje |-> <<stored_fechas.inicio, stored_fechas.fin>>]
    ELSE [rango |-> <<>>, mensaje |-> <<>>]

\* C25: after every update (page load, filter click, upload, config change)
\* the range the update applied and the range its filter message shows are
\* the range held in the stored filter state after the event; in particular
\* a click with the start or the end date cleared gives an unfiltered update
C25_RangoAplicadoEsAlmacenado ==
    (Actualizado /\ ~res.error) =>
        /\ rango_fechas = RangoAlmacenado.rango
        /\ mensaje_filtro = RangoAlmacenado.mensaje
        /\ (/\ op = "btn-filtrar-fechas"
            /\ (stored_fechas.inicio = Vacio \/ stored_fechas.fin = Vacio)) =>
               rango_fechas = <<>>

\* C28: a save-client action that wrote its record has returned the registry
\* for stored-config, so that an update of the dashboard is triggered
C28_GuardadoDisparaActualizacion ==
    (/\ op = "guardar"
     /\ entrada.n_clicks # 0
     /\ IdValido(entrada.cliente_id)
     /\ entrada.cliente_id \in DOMAIN ConfigActual) =>
        /\ "update_data" \in pendientes
        /\ stored_config = ConfigActual

---------------------------------------------------------------------------
(* Total revenue and the per-month revenue table *)

\* C26: the total revenue estimate is the sum over the months of the
\* per-month revenue table (clientes_mes with its Ingresos column) of the
\* revenue of the month; the revenue of a month is the price times the
\* number of distinct active clients present in it, so the total is the
\* price times the sum over the months of those numbers
C26_TotalEsSumaMensual ==
    Completo =>
        LET tabla == res.clientes_mes
            suma  == SumaDe([m \in DOMAIN tabla |-> tabla[m].Ingresos], DOMAIN tabla)
        IN  /\ RatIgual(res.ingresos_totales, Fraccion(suma, 1))
            /\ \A m \in DOMAIN tabla :
                  /\ m \in MesesTabla
                  /\ tabla[m].Ingresos = PRECIO_POR_CLIENTE * ActivosEnMes(m)
            /\ \A m \in MesesTabla \ DOMAIN tabla : ActivosEnMes(m) = 0
            /\ RatIgual(res.ingresos_totales,
                        Fraccion(PRECIO_POR_CLIENTE
                                   * SumaDe([m \in MesesTabla |-> ActivosEnMes(m)],
                                            MesesTabla), 1))

\* C26 witness: cliente1 and cliente2 are active; cliente1 plays in January
\* and February, cliente2 in February only: 15000 + 30000 = 45000
C26_Testigo ==
    /\ Completo
    /\ ActivosReg = {S_cliente1, S_cliente2}
    /\ DOMAIN res.clientes_mes = {<<2025, 1>>, <<2025, 2>>}
    /\ res.clientes_mes[<<2025, 1>>].Ingresos = 15000
    /\ res.clientes_mes[<<2025, 2>>].Ingresos = 30000
    /\ RatIgual(res.ingresos_totales, Fraccion(45000, 1))

---------------------------------------------------------------------------
(* The frame of a save *)

\* C27: a save of client X that passes the validation and writes the
\* registry leaves X's record in it and changes no other record: every other
\* client id of the document before the save is in the document after it,
\* with the same record
C27_SoloCambiaElGuardado ==
    [][LET viejo == cargar_configuracion(config_file).config
           nuevo == cargar_configuracion(config_file').config
           id    == entrada'.cliente_id
       IN  (/\ op' = "guardar"
            /\ entrada'.n_clicks # 0
            /\ id # <<>>
            /\ StartsWith(id, S_cliente)) =>
               /\ id \in DOMAIN nuevo
               /\ DOMAIN nuevo = DOMAIN viejo \cup {id}
               /\ \A k \in DOMAIN viejo \ {id} : nuevo[k] = viejo[k]]_vars

\* C27 witness: clienteABC was saved into a registry that held cliente1;
\* both are in the document and cliente1 has its record
C27_Testigo ==
    /\ op = "guardar"
    /\ entrada.n_clicks # 0
    /\ entrada.cliente_id = S_clienteABC
    /\ config_file.estado = "json"
    /\ DOMAIN config_file.datos = {S_cliente1, S_clienteABC}
    /\ config_file.datos[S_cliente1] = RegistroInicial
    /\ config_file.datos[S_clienteABC] = RegistroCliente(entrada, hoy)

====
